---------------------------- MODULE Spec2Model ----------------------------
(***************************************************************************)
(* Model of the margraf graph store (graph/model.go, graph/migration.go,   *)
(* the directionality policy) and of the shock simulator                   *)
(* (simulation: Simulator.RunShock and its helpers).                       *)
(*                                                                         *)
(* Numbers.  Go float64 quantities (health, weight, sentiment, relevance,  *)
(* impact factor, attenuation, lambda) are fixed-point integers in units   *)
(* of 1/1000: 1.0 is 1000, 0.1 is 100.  Products are divided by Scale      *)
(* with truncation toward zero.  Time is counted in half hours, so that    *)
(* the one-hour guard of the decay sweep has a value on either side; the   *)
(* zero time.Time is ZeroTime.                                             *)
(*                                                                         *)
(* Pointers.  An edge pointer is the edge's position in the collection     *)
(* Edges (edges are only appended, or the whole collection is replaced),   *)
(* so Adjacency maps a key to a sequence of positions.                     *)
(***************************************************************************)
EXTENDS Integers, Sequences, FiniteSets, TLC

VARIABLES Nodes, Edges, EdgeHistories, Adjacency,
          changesSinceLastSave, autoSaveThreshold, now, steps, last,
          mu, pc, sim, newG, saved, gen, retired

vars == <<Nodes, Edges, EdgeHistories, Adjacency,
          changesSinceLastSave, autoSaveThreshold, now, steps, last,
          mu, pc, sim, newG, saved, gen, retired>>

\* The variables of the command loop (specification Spec) and those of the
\* goroutines (specification ConcSpec).
seqVars == <<changesSinceLastSave, autoSaveThreshold, now, steps, last>>
concVars == <<mu, pc, sim, newG, saved, gen, retired>>

(***************************** bounds *************************************)
\* Operations performed after start-up in one behaviour.
MaxSteps == 2
\* Edges the collection may hold when AddEdge is called.
MaxEdges == 6

(************************* fixed-point helpers ****************************)
Scale == 1000

Abs(x) == IF x < 0 THEN -x ELSE x

\* Integer division truncating toward zero (d > 0).
TDiv(a, d) == IF a >= 0 THEN a \div d ELSE -((-a) \div d)

\* a * b / d truncated toward zero, without forming a * b.
MulDiv(a, b, d) ==
    LET q == TDiv(a, d)
        r == a - q * d
    IN  q * b + TDiv(r * b, d)

\* a * b on the fixed-point scale.
Mul(a, b) == MulDiv(a, b, Scale)

Min(a, b) == IF a < b THEN a ELSE b
Max(a, b) == IF a > b THEN a ELSE b

(***************************** time ***************************************)
\* The zero time.Time (Timestamp.IsZero()).
ZeroTime == -1
\* Half hours in a day.
HalfHoursPerDay == 48
\* time.Since saturates at the largest Duration (2^63-1 ns, 106751.99 days).
SatElapsed == 5124095

\* now.Sub(ts) in half hours.
Since(t, ts) == IF ts = ZeroTime THEN SatElapsed ELSE t - ts

(************************ directionality policy ***************************)
Unidirectional == "Unidirectional"
Bidirectional == "Bidirectional"
Reverse == "Reverse"

\* GetEdgeDirectionality with the membership types among the Bidirectional.
GetEdgeDirectionalityMembershipBoth(edgeType) ==
    CASE edgeType = "Supplies" -> Unidirectional
      [] edgeType = "Manufactures" -> Unidirectional
      [] edgeType = "Produces" -> Unidirectional
      [] edgeType = "ProcuresFrom" -> Reverse
      [] edgeType = "Requires" -> Reverse
      [] edgeType = "Consumes" -> Reverse
      [] edgeType = "DependsOn" -> Reverse
      [] OTHER -> Bidirectional

GetEdgeDirectionality(edgeType) ==
    CASE edgeType = "Supplies" -> Unidirectional
      [] edgeType = "Manufactures" -> Unidirectional
      [] edgeType = "Produces" -> Unidirectional
      [] edgeType = "HasIndustry" -> Unidirectional
      [] edgeType = "HasCompany" -> Unidirectional
      [] edgeType = "ProcuresFrom" -> Reverse
      [] edgeType = "Requires" -> Reverse
      [] edgeType = "Consumes" -> Reverse
      [] edgeType = "DependsOn" -> Reverse
      [] edgeType = "Trade" -> Bidirectional
      [] edgeType = "Capital" -> Bidirectional
      [] edgeType = "CompetesWith" -> Bidirectional
      [] edgeType = "SubstituteFor" -> Bidirectional
      [] edgeType = "Regulatory" -> Bidirectional
      [] OTHER -> Bidirectional

\* The tag ShouldPropagateShock leaves on the edge: it fills in an unset tag.
ResolvedDirectionality(edge) ==
    IF edge.Directionality = "" THEN GetEdgeDirectionality(edge.Type)
    ELSE edge.Directionality

\* ShouldPropagateShock deciding from the policy table's entry for the type.
ShouldPropagateByType(edge, fromSource) ==
    LET d == GetEdgeDirectionality(edge.Type)
    IN  CASE d = Unidirectional -> fromSource
          [] d = Reverse -> ~fromSource
          [] OTHER -> TRUE

\* ShouldPropagateShock letting every edge through.
ShouldPropagateAlways(edge, fromSource) == TRUE

ShouldPropagateShock(edge, fromSource) ==
    LET d == ResolvedDirectionality(edge)
    IN  CASE d = Unidirectional -> fromSource
          [] d = Reverse -> ~fromSource
          [] d = Bidirectional -> TRUE
          [] OTHER -> TRUE

GetShockPropagationFactor(edgeType) ==
    CASE edgeType = "Supplies" -> 900
      [] edgeType = "Manufactures" -> 900
      [] edgeType = "Produces" -> 800
      [] edgeType = "ProcuresFrom" -> 700
      [] edgeType = "Consumes" -> 700
      [] edgeType = "Requires" -> 700
      [] edgeType = "DependsOn" -> 800
      [] edgeType = "Trade" -> 600
      [] edgeType = "Capital" -> 500
      [] edgeType = "CompetesWith" -> 300
      [] edgeType = "SubstituteFor" -> 400
      [] edgeType = "Regulatory" -> 400
      [] edgeType = "HasIndustry" -> 600
      [] edgeType = "HasCompany" -> 500
      [] OTHER -> 500

(************************* exponential ************************************)
\* Number of terms of the Taylor series (the loop runs i = 1 .. terms-1).
terms == 20
\* The model evaluates the series for exponents down to -XCap; a smaller
\* exponent is evaluated at -XCap, where the series is already below -900
\* (it only falls further for smaller exponents: the odd term i = 19
\* dominates), so the caller's clamps see the same sign.
XCap == 12000

RECURSIVE expLoop(_, _, _, _)
expLoop(x, i, term, result) ==
    IF i >= terms THEN result
    ELSE LET t == MulDiv(term, x, Scale * i)
         IN  IF t = 0 THEN result          \* term negligible: break
             ELSE expLoop(x, i + 1, t, result + t)

\* e^x by the truncated Taylor series, x and the result on the scale.
expApprox(x) == expLoop(x, 1, Scale, Scale)

\* -lambda * timeSinceUpdate, timeSinceUpdate = elapsed half hours / 48 days.
Exponent(lambda, elapsed) ==
    IF elapsed > (HalfHoursPerDay * XCap) \div lambda THEN -XCap
    ELSE -TDiv(lambda * elapsed, HalfHoursPerDay)

(***************************** status band ********************************)
BlockedBelow == 100
WeakBelow == 300
ActiveBelow == 700

StatusBand(w) ==
    IF w < BlockedBelow THEN "Blocked"
    ELSE IF w < WeakBelow THEN "Weak"
    ELSE IF w < ActiveBelow THEN "Active"
    ELSE "Strong"

(***************************** the store ********************************)
\* A graph value g is a record [Nodes, Edges, EdgeHistories, Adjacency]:
\*   Nodes          key -> [Type, Health]                (map[string]*Node)
\*   Edges          sequence of edge records             ([]*Edge)
\*   EdgeHistories  <<source, target, type>> -> sequence of snapshots
\*   Adjacency      key -> sequence of positions in Edges
\* The operators below are the methods of graph.Graph as functions of the
\* graph value (and of the clock reading t where the method reads the clock).

EmptyGraph ==
    [Nodes |-> <<>>, Edges |-> <<>>, EdgeHistories |-> <<>>, Adjacency |-> <<>>]

\* The history key "src|tgt|type".
HistoryKey(e) == <<e.SourceID, e.TargetID, e.Type>>

\* Event ids are records, one field per format argument.
EventID(kind, target, n, node) ==
    [kind |-> kind, target |-> target, n |-> n, node |-> node]
NoEvent == EventID("", "", 0, "")
DecayEvent == EventID("temporal_decay", "", 0, "")

EdgeSnapshot(e, eventID) ==
    [Weight |-> e.Weight, Timestamp |-> e.Timestamp, Status |-> e.Status,
     EventID |-> eventID]

\* recordEdgeHistory keeping only the newest snapshot.
recordEdgeHistoryLatestOnly(histories, e, eventID) ==
    (HistoryKey(e) :> <<EdgeSnapshot(e, eventID)>>) @@ histories

\* recordEdgeHistory: the histories after appending a snapshot of e.
recordEdgeHistory(histories, e, eventID) ==
    LET key == HistoryKey(e)
    IN  IF key \in DOMAIN histories
        THEN [histories EXCEPT ![key] = Append(@, EdgeSnapshot(e, eventID))]
        ELSE (key :> <<EdgeSnapshot(e, eventID)>>) @@ histories

\* triggerAutoSave: the change counter after one more change.
triggerAutoSave(changes, threshold) ==
    IF changes + 1 >= threshold THEN 0 ELSE changes + 1

DefaultHealth == 1000
MinHealth == 100
MaxHealth == 2000

\* AddNode: n is [ID, Type, Health]; Health 0 is "unset".
AddNode(g, n) ==
    LET health == IF n.Health = 0 THEN DefaultHealth ELSE n.Health
    IN  [g EXCEPT !.Nodes =
            (n.ID :> [Type |-> n.Type, Health |-> health]) @@ g.Nodes]

\* NormalizeEdge overwriting what the caller supplied.
NormalizeEdgeAlways(e, t) ==
    [e EXCEPT !.Timestamp = t, !.Status = "Active",
              !.Directionality = GetEdgeDirectionality(e.Type)]

\* The edge AddEdge stores for e: unset fields filled in.
NormalizeEdge(e, t) ==
    [e EXCEPT
       !.Timestamp = IF e.Timestamp = ZeroTime THEN t ELSE e.Timestamp,
       !.Status = IF e.Status = "" THEN "Active" ELSE e.Status,
       !.Directionality = IF e.Directionality = ""
                          THEN GetEdgeDirectionality(e.Type)
                          ELSE e.Directionality]

\* Adjacency with position idx appended to the list of key.
AppendAdjacency(adj, key, idx) ==
    IF key \in DOMAIN adj THEN [adj EXCEPT ![key] = Append(@, idx)]
    ELSE (key :> <<idx>>) @@ adj

\* AddEdge putting the edge in front of the collection.
AddEdgeInFront(g, t, e) ==
    LET ne == NormalizeEdge(e, t)
    IN  [g EXCEPT
           !.Edges = <<ne>> \o g.Edges,
           !.Adjacency = AppendAdjacency(g.Adjacency, ne.SourceID,
                                         Len(g.Edges) + 1),
           !.EdgeHistories = recordEdgeHistory(g.EdgeHistories, ne, NoEvent)]

AddEdge(g, t, e) ==
    LET ne == NormalizeEdge(e, t)
    IN  [g EXCEPT
           !.Edges = Append(g.Edges, ne),
           !.Adjacency = AppendAdjacency(g.Adjacency, ne.SourceID,
                                         Len(g.Edges) + 1),
           !.EdgeHistories = recordEdgeHistory(g.EdgeHistories, ne, NoEvent)]

Clear == EmptyGraph

\* ClampHealth with the lower clamp left out.
ClampHealthNoFloor(h) == IF h > MaxHealth THEN MaxHealth ELSE h

ClampHealth(h) == IF h < MinHealth THEN MinHealth
                  ELSE IF h > MaxHealth THEN MaxHealth ELSE h

\* UpdateNodeHealth: [g, health, ok].
UpdateNodeHealth(g, id, delta) ==
    IF id \notin DOMAIN g.Nodes THEN [g |-> g, health |-> 0, ok |-> FALSE]
    ELSE LET h == ClampHealth(g.Nodes[id].Health + delta)
         IN  [g |-> [g EXCEPT !.Nodes[id].Health = h], health |-> h,
              ok |-> TRUE]

\* GetOutgoingEdges: the (copied) list of edge pointers of id.
GetOutgoingEdges(g, id) ==
    IF id \in DOMAIN g.Adjacency THEN g.Adjacency[id] ELSE <<>>

\* FindEdge with the comparison of the target left out.
FindEdgeAnyTarget(g, sourceID, targetID, edgeType) ==
    LET list == GetOutgoingEdges(g, sourceID)
        hits == {k \in 1..Len(list) : g.Edges[list[k]].Type = edgeType}
    IN  IF hits = {} THEN 0
        ELSE list[CHOOSE k \in hits : \A j \in hits : k <= j]

\* FindEdge with the comparison of the type left out.
FindEdgeAnyType(g, sourceID, targetID, edgeType) ==
    LET list == GetOutgoingEdges(g, sourceID)
        hits == {k \in 1..Len(list) : g.Edges[list[k]].TargetID = targetID}
    IN  IF hits = {} THEN 0
        ELSE list[CHOOSE k \in hits : \A j \in hits : k <= j]

\* The first edge of Adjacency[sourceID] with the target and type; 0 if none.
FindEdge(g, sourceID, targetID, edgeType) ==
    LET list == GetOutgoingEdges(g, sourceID)
        hits == {k \in 1..Len(list) :
                    /\ g.Edges[list[k]].TargetID = targetID
                    /\ g.Edges[list[k]].Type = edgeType}
    IN  IF hits = {} THEN 0
        ELSE list[CHOOSE k \in hits : \A j \in hits : k <= j]

\* The decay rate UpdateEdgeWeight uses (0.05 per day).
UpdateLambda == 50

\* ClampWeight with the upper clamp left out.
ClampWeightNoCeiling(w) == IF w < 0 THEN 0 ELSE w

ClampWeight(w) == IF w < 0 THEN 0 ELSE IF w > Scale THEN Scale ELSE w

\* The weight UpdateEdgeWeight computes for an edge.
NewWeight(e, t, sentimentScore, relevanceScore) ==
    LET decayFactor == expApprox(Exponent(UpdateLambda, Since(t, e.Timestamp)))
        decayedWeight == Mul(e.Weight, decayFactor)
        sentimentImpact == Mul(sentimentScore, relevanceScore)
    IN  ClampWeight(decayedWeight + sentimentImpact)

\* UpdateEdgeWeight: [g, ok, edge], edge the position of the edge updated.
UpdateEdgeWeight(g, t, sourceID, targetID, edgeType, sentimentScore, relevanceScore, eventID) ==
    LET idx == FindEdge(g, sourceID, targetID, edgeType)
    IN  IF idx = 0 THEN [g |-> g, ok |-> FALSE, edge |-> 0]
        ELSE LET w == NewWeight(g.Edges[idx], t, sentimentScore,
                                relevanceScore)
                 ne == [g.Edges[idx] EXCEPT !.Weight = w, !.Timestamp = t,
                                            !.Status = StatusBand(w)]
             IN  [g |-> [g EXCEPT
                           !.Edges[idx] = ne,
                           !.EdgeHistories =
                               recordEdgeHistory(g.EdgeHistories, ne, eventID)],
                  ok |-> TRUE, edge |-> idx]

\* The decay sweep skips an edge updated less than an hour (2 half hours) ago.
RecentHalfHours == 2
\* The floor of a decayed weight (0.01) and the least change committed (0.001).
DecayFloor == 10
DecayEpsilon == 1

\* DecayedWeight with the 0.01 floor left out.
DecayedWeightUnfloored(e, t, lambda) ==
    Mul(e.Weight, expApprox(Exponent(lambda, Since(t, e.Timestamp))))

\* The weight ApplyTemporalDecay computes for an edge (before the guard).
DecayedWeight(e, t, lambda) ==
    Max(DecayFloor,
        Mul(e.Weight, expApprox(Exponent(lambda, Since(t, e.Timestamp)))))

\* DecayCommits with the guard on the size of the change left out.
DecayCommitsAnyChange(e, t, lambda) ==
    ~(Since(t, e.Timestamp) < RecentHalfHours)

\* Whether the sweep commits a new weight to the edge.
DecayCommits(e, t, lambda) ==
    /\ ~(Since(t, e.Timestamp) < RecentHalfHours)
    /\ e.Weight - DecayedWeight(e, t, lambda) > DecayEpsilon

\* DecayedEdge with the timestamp left as it was.
DecayedEdgeUnstamped(e, t, lambda) ==
    [e EXCEPT !.Weight = DecayedWeight(e, t, lambda),
              !.Status = StatusBand(DecayedWeight(e, t, lambda))]

\* The edge as the sweep commits it: new weight, stamped now, status band.
DecayedEdge(e, t, lambda) ==
    [e EXCEPT !.Weight = DecayedWeight(e, t, lambda), !.Timestamp = t,
              !.Status = StatusBand(DecayedWeight(e, t, lambda))]

RECURSIVE decayLoop(_, _, _, _, _)
decayLoop(g, t, lambda, i, count) ==
    IF i > Len(g.Edges) THEN [g |-> g, count |-> count]
    ELSE IF DecayCommits(g.Edges[i], t, lambda)
    THEN decayLoop([g EXCEPT
                      !.Edges[i] = DecayedEdge(g.Edges[i], t, lambda),
                      !.EdgeHistories =
                          recordEdgeHistory(g.EdgeHistories,
                                            DecayedEdge(g.Edges[i], t, lambda),
                                            DecayEvent)],
                   t, lambda, i + 1, count + 1)
    ELSE decayLoop(g, t, lambda, i + 1, count)

\* ApplyTemporalDecay: [g, count].
ApplyTemporalDecay(g, t, lambda) == decayLoop(g, t, lambda, 1, 0)

RECURSIVE rebuildLoop(_, _, _)
rebuildLoop(edges, i, adj) ==
    IF i > Len(edges) THEN adj
    ELSE rebuildLoop(edges, i + 1, AppendAdjacency(adj, edges[i].SourceID, i))

\* The adjacency index built from an edge collection.
RebuildAdjacency(edges) == rebuildLoop(edges, 1, <<>>)

\* Replace: the graph after g.Replace(other).
Replace(g, other) ==
    [Nodes |-> other.Nodes, Edges |-> other.Edges,
     EdgeHistories |-> other.EdgeHistories,
     Adjacency |-> RebuildAdjacency(other.Edges)]

\* MigrateEdgeDirectionality: every unset tag resolved from the type.
MigrateEdgeDirectionality(g) ==
    [g EXCEPT !.Edges =
        [i \in 1..Len(g.Edges) |->
            [g.Edges[i] EXCEPT !.Directionality =
                ResolvedDirectionality(g.Edges[i])]]]

HasEdge(edges, sourceID, targetID, edgeType) ==
    \E i \in 1..Len(edges) :
        /\ edges[i].SourceID = sourceID
        /\ edges[i].TargetID = targetID
        /\ edges[i].Type = edgeType

IsCorporation(g, id) ==
    id \in DOMAIN g.Nodes /\ g.Nodes[id].Type = "Corporation"

\* The edge discovery derives from a DependsOn edge.
DiscoveredEdge(edge, sourceID, targetID, edgeType, directionality) ==
    [SourceID |-> sourceID, TargetID |-> targetID, Type |-> edgeType,
     Weight |-> edge.Weight, Timestamp |-> ZeroTime, Status |-> edge.Status,
     Directionality |-> directionality]

\* AppendDiscovered with the append to Adjacency left out.
AppendDiscoveredUnindexed(g, ne) == [g EXCEPT !.Edges = Append(g.Edges, ne)]

\* g.Edges = append(...); g.Adjacency[src] = append(...): no history.
AppendDiscovered(g, ne) ==
    [g EXCEPT !.Edges = Append(g.Edges, ne),
              !.Adjacency = AppendAdjacency(g.Adjacency, ne.SourceID,
                                            Len(g.Edges) + 1)]

RECURSIVE discoverLoop(_, _, _)
discoverLoop(g, i, n) ==
    IF i > n THEN g
    ELSE LET edge == g.Edges[i]
         IN  IF /\ edge.Type = "DependsOn"
                /\ IsCorporation(g, edge.SourceID)
                /\ IsCorporation(g, edge.TargetID)
             THEN LET g1 == IF HasEdge(g.Edges, edge.TargetID, edge.SourceID,
                                       "Supplies")
                            THEN g
                            ELSE AppendDiscovered(g,
                                   DiscoveredEdge(edge, edge.TargetID,
                                     edge.SourceID, "Supplies",
                                     Unidirectional))
                      g2 == IF HasEdge(g1.Edges, edge.SourceID, edge.TargetID,
                                       "ProcuresFrom")
                            THEN g1
                            ELSE AppendDiscovered(g1,
                                   DiscoveredEdge(edge, edge.SourceID,
                                     edge.TargetID, "ProcuresFrom", Reverse))
                  IN  discoverLoop(g2, i + 1, n)
             ELSE discoverLoop(g, i + 1, n)

\* DiscoverSupplyChainRelations: the range loop runs over the edges present
\* when it starts.
DiscoverSupplyChainRelations(g) == discoverLoop(g, 1, Len(g.Edges))

\* Load: doc is the decoded document [Nodes, Edges, EdgeHistories].
Load(doc) ==
    LET migrated == [i \in 1..Len(doc.Edges) |->
                        [doc.Edges[i] EXCEPT !.Directionality =
                            ResolvedDirectionality(doc.Edges[i])]]
    IN  DiscoverSupplyChainRelations(
            [Nodes |-> doc.Nodes, Edges |-> migrated,
             EdgeHistories |-> doc.EdgeHistories,
             Adjacency |-> RebuildAdjacency(migrated)])

(***************************** the simulator *****************************)
\* A shock run is a record c:
\*   g                the graph as the run has left it so far
\*   activationMap    key -> activation energy
\*   impactedNodeIDs  the impacted list, winners the winners list
\*   panicked         the run dereferenced a nil *Node and stopped there
\*   reweighted       the UpdateEdgeWeight calls made, in order:
\*                    [hop, via, edge, ok], via the edge being iterated and
\*                    edge the edge the store updated (0 if none)
\*   penalised        the UpdateNodeHealth calls made, in order:
\*                    [hop, via, node, delta]
\*   seeded           activationMap as the ripple found it at its start
\*   rippled          the entries of the impacted list the ripple has
\*                    visited, in order: [node, activation], activation the
\*                    value it read from activationMap
\* reweighted, penalised, seeded and rippled record what the run did; the
\* run never reads them.

HealthPenalty == 200
FirstOrderBase == 100
ReverseBase == 50
WinnerBoost == 150
RippleThreshold == 50
RippleAttenuation == 500
RippleRelevance == 700
ThirdOrderThreshold == 150
ThirdOrderShare == 300

GetNode(g, id) == id \in DOMAIN g.Nodes

\* resilience and effectiveImpact of RunShock.
\* EffectiveImpact with the loss multiplied by the resilience.
EffectiveImpactTimesResilience(health, impactFactor) ==
    LET resilience == IF health <= MinHealth THEN MinHealth ELSE health
        raw == Scale - Mul(Scale - impactFactor, resilience)
    IN  IF raw < 0 THEN 0 ELSE IF raw > Scale THEN Scale ELSE raw

EffectiveImpact(health, impactFactor) ==
    LET resilience == IF health <= MinHealth THEN MinHealth ELSE health
        raw == Scale - MulDiv(Scale - impactFactor, Scale, resilience)
    IN  IF raw < 0 THEN 0 ELSE IF raw > Scale THEN Scale ELSE raw

\* ShouldPropagateShock writes the resolved tag back to the edge.
TagEdge(g, i) ==
    [g EXCEPT !.Edges[i].Directionality = ResolvedDirectionality(g.Edges[i])]

Reweigh(hop, via, r) ==
    [hop |-> hop, via |-> via, edge |-> r.edge, ok |-> r.ok]
Penalise(hop, via, node, delta) ==
    [hop |-> hop, via |-> via, node |-> node, delta |-> delta]

\* Whether the first-order loop propagates through outgoing edge e.
PropagatesForward(e) == ShouldPropagateShock(e, TRUE)

\* FirstOrderImpact with the base factor of the reverse scan.
FirstOrderImpactHalved(c, r, effectiveImpact, i, neighborID, propagationFactor) ==
    LET healthDelta == -Mul(Mul(ReverseBase, Scale - effectiveImpact),
                            propagationFactor)
    IN  [c EXCEPT
           !.g = UpdateNodeHealth(r.g, neighborID, healthDelta).g,
           !.activationMap =
               (neighborID :> Mul(Mul(Scale - effectiveImpact,
                                      r.g.Edges[i].Weight),
                                  propagationFactor)) @@ @,
           !.impactedNodeIDs = Append(@, neighborID),
           !.reweighted = Append(@, Reweigh("first", i, r)),
           !.penalised = Append(@, Penalise("first", i, neighborID,
                                            healthDelta))]

\* The first-order loop after a successful update r of edge i towards an
\* existing neighbor: activation from the edge's live weight, health penalty.
FirstOrderImpact(c, r, effectiveImpact, i, neighborID, propagationFactor) ==
    LET healthDelta == -Mul(Mul(FirstOrderBase, Scale - effectiveImpact),
                            propagationFactor)
    IN  [c EXCEPT
           !.g = UpdateNodeHealth(r.g, neighborID, healthDelta).g,
           !.activationMap =
               (neighborID :> Mul(Mul(Scale - effectiveImpact,
                                      r.g.Edges[i].Weight),
                                  propagationFactor)) @@ @,
           !.impactedNodeIDs = Append(@, neighborID),
           !.reweighted = Append(@, Reweigh("first", i, r)),
           !.penalised = Append(@, Penalise("first", i, neighborID,
                                            healthDelta))]

\* The first-order loop after UpdateEdgeWeight returned r for edge i (e).
FirstOrderUpdated(c, r, effectiveImpact, i, e) ==
    IF ~r.ok
    THEN [c EXCEPT !.g = r.g,
                   !.reweighted = Append(@, Reweigh("first", i, r))]
    ELSE IF ~GetNode(r.g, e.TargetID)
    THEN [c EXCEPT !.g = r.g,
                   !.reweighted = Append(@, Reweigh("first", i, r)),
                   !.panicked = TRUE]                  \* neighbor.Name
    ELSE FirstOrderImpact(c, r, effectiveImpact, i, e.TargetID,
                          GetShockPropagationFactor(e.Type))

\* The body of the first-order loop for outgoing edge i.
FirstOrderStep(c, t, targetNodeID, effectiveImpact, i) ==
    LET e == c.g.Edges[i]
    IN  IF ~PropagatesForward(e) THEN [c EXCEPT !.g = TagEdge(c.g, i)]
        ELSE FirstOrderUpdated(c,
               UpdateEdgeWeight(TagEdge(c.g, i), t, e.SourceID, e.TargetID,
                                e.Type, -(Scale - effectiveImpact), Scale,
                                EventID("shock", targetNodeID,
                                        Cardinality(DOMAIN c.activationMap),
                                        "")),
               effectiveImpact, i, e)

RECURSIVE firstOrderLoop(_, _, _, _, _, _)
firstOrderLoop(c, t, targetNodeID, effectiveImpact, outgoing, k) ==
    IF c.panicked \/ k > Len(outgoing) THEN c
    ELSE firstOrderLoop(
           FirstOrderStep(c, t, targetNodeID, effectiveImpact, outgoing[k]),
           t, targetNodeID, effectiveImpact, outgoing, k + 1)

\* The reverse scan after UpdateEdgeWeight returned r for edge i.
ReverseUpdated(c, r, effectiveImpact, i, upstreamID, propagationFactor) ==
    IF ~r.ok
    THEN [c EXCEPT !.g = r.g,
                   !.reweighted = Append(@, Reweigh("reverse", i, r))]
    ELSE
      LET healthDelta == -Mul(Mul(ReverseBase, Scale - effectiveImpact),
                              propagationFactor)
      IN  [c EXCEPT
             !.g = UpdateNodeHealth(r.g, upstreamID, healthDelta).g,
             !.activationMap =
                 (upstreamID :> Mul(Mul(Scale - effectiveImpact,
                                        r.g.Edges[i].Weight),
                                    propagationFactor)) @@ @,
             !.impactedNodeIDs = Append(@, upstreamID),
             !.reweighted = Append(@, Reweigh("reverse", i, r)),
             !.penalised = Append(@, Penalise("reverse", i, upstreamID,
                                              healthDelta))]

\* The callback of propagateReverseShocks for edge i of the snapshot.
ReverseStep(c, t, targetNodeID, effectiveImpact, i) ==
    LET edge == c.g.Edges[i]
    IN  IF edge.TargetID # targetNodeID THEN c
        ELSE IF ~ShouldPropagateShock(edge, FALSE)
        THEN [c EXCEPT !.g = TagEdge(c.g, i)]
        ELSE IF ~GetNode(c.g, edge.SourceID)
        THEN [c EXCEPT !.g = TagEdge(c.g, i)]
        ELSE ReverseUpdated(c,
               UpdateEdgeWeight(TagEdge(c.g, i), t, edge.SourceID,
                                edge.TargetID, edge.Type,
                                -(Scale - effectiveImpact), Scale,
                                EventID("shock_reverse", targetNodeID, 0, "")),
               effectiveImpact, i, edge.SourceID,
               GetShockPropagationFactor(edge.Type))

RECURSIVE reverseLoop(_, _, _, _, _, _)
reverseLoop(c, t, targetNodeID, effectiveImpact, i, n) ==
    IF c.panicked \/ i > n THEN c
    ELSE reverseLoop(ReverseStep(c, t, targetNodeID, effectiveImpact, i),
                     t, targetNodeID, effectiveImpact, i + 1, n)

\* propagateReverseShocks: EdgesRange over the edges present at its start.
propagateReverseShocks(c, t, targetNodeID, effectiveImpact) ==
    reverseLoop(c, t, targetNodeID, effectiveImpact, 1, Len(c.g.Edges))

RECURSIVE ConcatAll(_)
ConcatAll(ss) == IF Len(ss) = 0 THEN <<>> ELSE Head(ss) \o ConcatAll(Tail(ss))

\* The order in which NodesRange visits the keys.  Go leaves the order of a
\* map iteration open; the winners receive equal boosts, so the order shows
\* only in the order of the winners list.
KeyOrder == <<"a", "b", "c">>
NodesRange(g) == SelectSeq(KeyOrder, LAMBDA k : k \in DOMAIN g.Nodes)

\* What findSubstitutes appends while visiting node n.
ProducerEntries(g, n, commodityID) ==
    LET out == GetOutgoingEdges(g, n)
        hits == SelectSeq(out, LAMBDA i : /\ g.Edges[i].Type = "Produces"
                                          /\ g.Edges[i].TargetID = commodityID)
    IN  [j \in 1..Len(hits) |-> n]

findSubstitutes(g, commodityID) ==
    LET ns == NodesRange(g)
    IN  ConcatAll([k \in 1..Len(ns) |-> ProducerEntries(g, ns[k], commodityID)])

\* CompetitorEntries with the branch for e.SourceID = shockedNodeID left out.
CompetitorEntriesTargetSide(e, shockedNodeID) ==
    IF e.Type \in {"CompetesWith", "SubstituteFor"}
       /\ e.TargetID = shockedNodeID
    THEN <<e.SourceID>> ELSE <<>>

\* What the EdgesRange callback of identifyWinners appends for edge e.
CompetitorEntries(e, shockedNodeID) ==
    (IF e.Type = "CompetesWith"
     THEN IF e.SourceID = shockedNodeID THEN <<e.TargetID>>
          ELSE IF e.TargetID = shockedNodeID THEN <<e.SourceID>>
          ELSE <<>>
     ELSE <<>>)
    \o
    (IF e.Type = "SubstituteFor" /\ e.TargetID = shockedNodeID
     THEN <<e.SourceID>> ELSE <<>>)

\* identifyWinners: the entries appended to the winners list.
identifyWinners(g, shockedNodeID) ==
    IF ~GetNode(g, shockedNodeID) THEN <<>>
    ELSE
      LET out == GetOutgoingEdges(g, shockedNodeID)
          strategy1 ==
            IF g.Nodes[shockedNodeID].Type \in {"Nation", "RawMaterial"}
            THEN ConcatAll([k \in 1..Len(out) |->
                    IF g.Edges[out[k]].Type = "Produces"
                    THEN findSubstitutes(g, g.Edges[out[k]].TargetID)
                    ELSE <<>>])
            ELSE <<>>
          strategy2 ==
            ConcatAll([i \in 1..Len(g.Edges) |->
                          CompetitorEntries(g.Edges[i], shockedNodeID)])
      IN  strategy1 \o strategy2

RECURSIVE winnerLoop(_, _)
winnerLoop(c, k) ==
    IF c.panicked \/ k > Len(c.winners) THEN c
    ELSE LET winnerID == c.winners[k]
         IN  IF ~GetNode(c.g, winnerID)
             THEN [c EXCEPT !.panicked = TRUE]         \* winner.Name
             ELSE winnerLoop(
                    [c EXCEPT
                       !.g = UpdateNodeHealth(c.g, winnerID, WinnerBoost).g,
                       !.penalised = Append(@, Penalise("winner", 0, winnerID,
                                                        WinnerBoost))],
                    k + 1)

\* Whether the ripple re-weights outgoing edge e of an impacted entity.
RipplesThrough(e) == TRUE

\* The ripple after UpdateEdgeWeight returned r for edge i (its result is
\* not looked at).
SecondOrderUpdated(c, r, impactedID, activation, i, downstreamID) ==
    IF ~GetNode(r.g, impactedID) \/ ~GetNode(r.g, downstreamID)
    THEN [c EXCEPT !.g = r.g,
                   !.reweighted = Append(@, Reweigh("second", i, r)),
                   !.panicked = TRUE]  \* impactedNode.Name, downstream.Name
    ELSE [c EXCEPT
            !.g = r.g,
            !.reweighted = Append(@, Reweigh("second", i, r)),
            !.activationMap =
                IF activation > ThirdOrderThreshold
                THEN (downstreamID :> Mul(activation, ThirdOrderShare)) @@ @
                ELSE @]

\* The body of the inner loop of the second-order ripple for edge i.
SecondOrderStep(c, t, targetNodeID, impactedID, activation, i) ==
    LET e == c.g.Edges[i]
    IN  IF ~RipplesThrough(e) THEN c
        ELSE SecondOrderUpdated(c,
               UpdateEdgeWeight(c.g, t, e.SourceID, e.TargetID, e.Type,
                                -Mul(activation, RippleAttenuation),
                                RippleRelevance,
                                EventID("shock_2nd", targetNodeID, 0,
                                        impactedID)),
               impactedID, activation, i, e.TargetID)

RECURSIVE innerLoop(_, _, _, _, _, _, _)
innerLoop(c, t, targetNodeID, impactedID, activation, out, j) ==
    IF c.panicked \/ j > Len(out) THEN c
    ELSE innerLoop(
           SecondOrderStep(c, t, targetNodeID, impactedID, activation, out[j]),
           t, targetNodeID, impactedID, activation, out, j + 1)

\* The run's record once the ripple has read the activation of an entry.
Visit(c, impactedID, activation) ==
    [c EXCEPT !.rippled = Append(@, [node |-> impactedID,
                                     activation |-> activation])]

RECURSIVE secondOrderLoop(_, _, _, _)
secondOrderLoop(c, t, targetNodeID, k) ==
    IF c.panicked \/ k > Len(c.impactedNodeIDs) THEN c
    ELSE LET impactedID == c.impactedNodeIDs[k]
             activation == IF impactedID \in DOMAIN c.activationMap
                           THEN c.activationMap[impactedID] ELSE 0
         IN  IF activation < RippleThreshold
             THEN secondOrderLoop(Visit(c, impactedID, activation), t,
                                  targetNodeID, k + 1)
             ELSE secondOrderLoop(
                    innerLoop(Visit(c, impactedID, activation), t,
                              targetNodeID, impactedID, activation,
                              GetOutgoingEdges(c.g, impactedID), 1),
                    t, targetNodeID, k + 1)

\* The run's record before its first store call.
ShockStart(g, targetNodeID, effectiveImpact) ==
    [g |-> g, found |-> TRUE, effectiveImpact |-> effectiveImpact,
     activationMap |-> (targetNodeID :> (Scale - effectiveImpact)),
     impactedNodeIDs |-> <<>>, winners |-> <<>>, panicked |-> FALSE,
     reweighted |-> <<>>, penalised |-> <<>>, seeded |-> <<>>,
     rippled |-> <<>>]

\* TargetFound with the lookup's result ignored.
TargetFoundAlways(g, targetNodeID) == TRUE

\* Whether RunShock finds its target.
TargetFound(g, targetNodeID) == GetNode(g, targetNodeID)

\* The first-order loop over the target's outgoing edges.
firstOrderPhase(c, t, targetNodeID) ==
    firstOrderLoop(c, t, targetNodeID, c.effectiveImpact,
                   GetOutgoingEdges(c.g, targetNodeID), 1)

reversePhase(c, t, targetNodeID) ==
    IF c.panicked THEN c
    ELSE propagateReverseShocks(c, t, targetNodeID, c.effectiveImpact)

\* identifyWinners and the boosts.
winnerPhase(c, targetNodeID) ==
    IF c.panicked THEN c
    ELSE winnerLoop([c EXCEPT !.winners = identifyWinners(c.g, targetNodeID)],
                    1)

secondOrderPhase(c, t, targetNodeID) ==
    IF c.panicked THEN c
    ELSE secondOrderLoop([c EXCEPT !.seeded = c.activationMap], t,
                         targetNodeID, 1)

\* RunShock once the target is found, with its effective impact.
ShockPhases(g, t, targetNodeID, effectiveImpact) ==
    secondOrderPhase(
      winnerPhase(
        reversePhase(
          firstOrderPhase(
            ShockStart(UpdateNodeHealth(g, targetNodeID, -HealthPenalty).g,
                       targetNodeID, effectiveImpact),
            t, targetNodeID),
          t, targetNodeID),
        targetNodeID),
      t, targetNodeID)

\* RunShock at clock reading t.
RunShock(g, t, targetNodeID, impactFactor) ==
    IF ~TargetFound(g, targetNodeID)
    THEN [ShockStart(g, targetNodeID, 0) EXCEPT !.found = FALSE,
                                                !.activationMap = <<>>]
    ELSE ShockPhases(g, t, targetNodeID,
                     EffectiveImpact(IF GetNode(g, targetNodeID)
                                     THEN g.Nodes[targetNodeID].Health ELSE 0,
                                     impactFactor))

(************************** inputs and documents **************************)
Keys == {"a", "b", "c"}

\* The clock reading at start-up, in half hours.
StartTime == 20000

Node(id, type, health) == [ID |-> id, Type |-> type, Health |-> health]

\* An edge as a caller builds it; "" and ZeroTime are the unset values.
Edge(sourceID, targetID, edgeType, weight, timestamp, directionality) ==
    [SourceID |-> sourceID, TargetID |-> targetID, Type |-> edgeType,
     Weight |-> weight, Timestamp |-> timestamp, Status |-> "",
     Directionality |-> directionality]

RECURSIVE addNodes(_, _)
addNodes(g, ns) ==
    IF Len(ns) = 0 THEN g ELSE addNodes(AddNode(g, Head(ns)), Tail(ns))

RECURSIVE addEdges(_, _, _)
addEdges(g, t, es) ==
    IF Len(es) = 0 THEN g ELSE addEdges(AddEdge(g, t, Head(es)), t, Tail(es))

\* Save: the document written for g (Adjacency is not serialised).
Save(g) ==
    [Nodes |-> g.Nodes, Edges |-> g.Edges, EdgeHistories |-> g.EdgeHistories]

\* The document an earlier run saved after the given AddNode and AddEdge
\* calls.
SavedDocument(ns, es) ==
    Save(addEdges(addNodes(EmptyGraph, ns), StartTime, es))

EmptyDoc == Save(EmptyGraph)

\* A supply chain a -> b -> c with b depending on a.
ChainDoc ==
    SavedDocument(
      <<Node("a", "Corporation", 0), Node("b", "Corporation", 0),
        Node("c", "Corporation", 0)>>,
      <<Edge("a", "b", "Supplies", 900, StartTime - 96, ""),
        Edge("b", "c", "Supplies", 800, StartTime - 1, ""),
        Edge("b", "a", "DependsOn", 900, StartTime - 6720, "")>>)

\* Two rivals.
RivalDoc ==
    SavedDocument(
      <<Node("a", "Corporation", 0), Node("c", "Corporation", 1500)>>,
      <<Edge("a", "c", "CompetesWith", 500, StartTime - 2, "")>>)

\* Two nations producing the same raw material.
ProducerDoc ==
    SavedDocument(
      <<Node("a", "Nation", 0), Node("b", "Nation", 300),
        Node("c", "RawMaterial", 0)>>,
      <<Edge("a", "c", "Produces", 1000, StartTime - 96, ""),
        Edge("b", "c", "Produces", 800, StartTime - 96, "")>>)

\* An edge to an entity that was never added.
DanglingDoc ==
    SavedDocument(
      <<Node("a", "Corporation", 300), Node("c", "Corporation", 0)>>,
      <<Edge("a", "b", "Supplies", 900, StartTime - 96, ""),
        Edge("c", "a", "SubstituteFor", 400, StartTime, "")>>)

\* A Trade edge the caller tagged Reverse, and two faded edges.
StaleDoc ==
    SavedDocument(
      <<Node("a", "Corporation", 0), Node("b", "Corporation", 0)>>,
      <<Edge("a", "b", "Trade", 800, StartTime - 96, Reverse),
        Edge("b", "a", "Capital", 5, StartTime - 6720, ""),
        Edge("b", "a", "Regulatory", 0, StartTime - 96, "")>>)

\* A cycle a -> b -> c -> a with a chord a -> c and a self-loop on a.
CycleDoc ==
    SavedDocument(
      <<Node("a", "Corporation", 0), Node("b", "Corporation", 0),
        Node("c", "Corporation", 0)>>,
      <<Edge("a", "b", "Supplies", 900, StartTime - 2, ""),
        Edge("a", "c", "Supplies", 800, StartTime - 2, ""),
        Edge("b", "c", "Supplies", 700, StartTime - 2, ""),
        Edge("c", "a", "Trade", 600, StartTime - 2, ""),
        Edge("a", "a", "Trade", 500, StartTime - 2, "")>>)

\* The documents found at start-up.
Documents ==
    {EmptyDoc, ChainDoc, RivalDoc, ProducerDoc, DanglingDoc, StaleDoc, CycleDoc}
\* The documents the load command reads.
LoadDocuments == {ChainDoc, StaleDoc}

NodeInputs ==
    {Node("a", "Corporation", 0), Node("b", "Corporation", 50),
     Node("c", "Nation", 2500)}

EdgeInputs ==
    {Edge("a", "b", "Trade", 600, ZeroTime, ""),
     Edge("c", "a", "CompetesWith", 400, ZeroTime, ""),
     Edge("b", "a", "DependsOn", 900, ZeroTime, ""),
     [Edge("b", "c", "Supplies", 200, StartTime - 96, Reverse)
        EXCEPT !.Status = "Weak"]}

HealthInputs ==
    {[id |-> "a", delta |-> -2500], [id |-> "b", delta |-> 150],
     [id |-> "c", delta |-> 2500]}

SignalInputs ==
    {[sentimentScore |-> -1000, relevanceScore |-> 1000],
     [sentimentScore |-> 1000, relevanceScore |-> 700],
     [sentimentScore |-> -200, relevanceScore |-> 500]}

\* A triple no document and no input gives an edge.
MissingTriple == <<"c", "b", "Trade">>

Lambdas == {50, 1000}
ImpactFactors == {100, 500, 1000}
Elapse == {2, 96}

(************************* lock and goroutines ****************************)
\* The goroutines that use the store: the news engine running a shock, the
\* command loop loading a file, the decay worker, the auto-save timer.
Procs == {"sim", "loader", "worker", "saver"}

\* Graph.mu: the goroutine holding the write lock ("none" if free) and the
\* goroutines holding the read lock.
Free == [writer |-> "none", readers |-> {}]

\* mu.Lock() / mu.RLock() return at once.
CanLock(m) == m.writer = "none" /\ m.readers = {}
CanRLock(m) == m.writer = "none"

\* Lock that takes nothing.
LockSkipped(m, p) == m
\* Unlock that gives nothing back.
UnlockSkipped(m, p) == m
\* RUnlock that gives nothing back.
RUnlockSkipped(m, p) == m

Lock(m, p) == [m EXCEPT !.writer = p]
Unlock(m, p) == [m EXCEPT !.writer = "none"]
RLock(m, p) == [m EXCEPT !.readers = @ \cup {p}]
RUnlock(m, p) == [m EXCEPT !.readers = @ \ {p}]

\* The collections a pointer may point into are numbered: Replace puts a new
\* map of entities and a new slice of edges in place, the objects of the old
\* ones stay alive for whoever holds a pointer to them.
FirstGen == [Nodes |-> 0, Edges |-> 0, EdgeHistories |-> 0, Adjacency |-> 0]

(***************************** the program ********************************)
\* The graph value held in the variables.
G == [Nodes |-> Nodes, Edges |-> Edges, EdgeHistories |-> EdgeHistories,
      Adjacency |-> Adjacency]

NoArg == [none |-> TRUE]

\* The record of the step just taken: the operation, its argument, the graph
\* before it, what it returned and the clock reading it saw, and the
\* operation, argument and clock reading of the step before.
Record(op, arg, out) ==
    [op |-> op, arg |-> arg, pre |-> G, out |-> out, at |-> now,
     prevOp |-> last.op, prevArg |-> last.arg, prevAt |-> last.at]

\* The process is alive: no shock run has panicked.
Running == ~(last.op = "RunShock" /\ last.out.panicked)

CanStep == steps < MaxSteps /\ Running

SetGraph(g) ==
    /\ Nodes' = g.Nodes
    /\ Edges' = g.Edges
    /\ EdgeHistories' = g.EdgeHistories
    /\ Adjacency' = g.Adjacency

\* main: NewGraph() or Load(graphFile), then EnableAutoSave(graphFile, 10).
Init ==
    /\ \E doc \in Documents :
         LET g == IF doc = EmptyDoc THEN EmptyGraph ELSE Load(doc)
         IN  /\ Nodes = g.Nodes
             /\ Edges = g.Edges
             /\ EdgeHistories = g.EdgeHistories
             /\ Adjacency = g.Adjacency
    /\ changesSinceLastSave = 0
    /\ autoSaveThreshold = 10
    /\ now = StartTime
    /\ steps = 0
    /\ last = [op |-> "Init", arg |-> NoArg, pre |-> EmptyGraph,
               out |-> NoArg, at |-> StartTime, prevOp |-> "",
               prevArg |-> NoArg, prevAt |-> StartTime]
    /\ mu = Free
    /\ pc = [p \in Procs |-> "off"]
    /\ sim = NoArg
    /\ newG = EmptyGraph
    /\ saved = NoArg
    /\ gen = FirstGen
    /\ retired = EmptyGraph

\* Time passes.
Tick ==
    /\ CanStep
    /\ \E d \in Elapse :
         /\ now' = now + d
         /\ last' = Record("Tick", [d |-> d], NoArg)
    /\ steps' = steps + 1
    /\ UNCHANGED concVars
    /\ UNCHANGED <<Nodes, Edges, EdgeHistories, Adjacency,
                   changesSinceLastSave, autoSaveThreshold>>

DoAddNode ==
    /\ CanStep
    /\ \E n \in NodeInputs :
         /\ SetGraph(AddNode(G, n))
         /\ last' = Record("AddNode", n, NoArg)
    /\ changesSinceLastSave' =
           triggerAutoSave(changesSinceLastSave, autoSaveThreshold)
    /\ steps' = steps + 1
    /\ UNCHANGED concVars
    /\ UNCHANGED <<autoSaveThreshold, now>>

DoAddEdge ==
    /\ CanStep
    /\ Len(Edges) < MaxEdges
    /\ \E e \in EdgeInputs :
         /\ SetGraph(AddEdge(G, now, e))
         /\ last' = Record("AddEdge", e, NoArg)
    /\ changesSinceLastSave' =
           triggerAutoSave(changesSinceLastSave, autoSaveThreshold)
    /\ steps' = steps + 1
    /\ UNCHANGED concVars
    /\ UNCHANGED <<autoSaveThreshold, now>>

DoUpdateNodeHealth ==
    /\ CanStep
    /\ \E a \in HealthInputs :
         LET r == UpdateNodeHealth(G, a.id, a.delta)
         IN  /\ SetGraph(r.g)
             /\ last' = Record("UpdateNodeHealth", a,
                               [health |-> r.health, ok |-> r.ok])
    /\ steps' = steps + 1
    /\ UNCHANGED concVars
    /\ UNCHANGED <<changesSinceLastSave, autoSaveThreshold, now>>

\* The triples UpdateEdgeWeight is called with.
Triples == {HistoryKey(Edges[i]) : i \in 1..Len(Edges)} \cup {MissingTriple}

DoUpdateEdgeWeight ==
    /\ CanStep
    /\ \E k \in Triples, s \in SignalInputs :
         LET r == UpdateEdgeWeight(G, now, k[1], k[2], k[3], s.sentimentScore,
                                   s.relevanceScore,
                                   EventID("news", "", 0, ""))
         IN  /\ SetGraph(r.g)
             /\ last' = Record("UpdateEdgeWeight",
                               [sourceID |-> k[1], targetID |-> k[2],
                                edgeType |-> k[3],
                                sentimentScore |-> s.sentimentScore,
                                relevanceScore |-> s.relevanceScore],
                               [ok |-> r.ok, edge |-> r.edge])
    /\ steps' = steps + 1
    /\ UNCHANGED concVars
    /\ UNCHANGED <<changesSinceLastSave, autoSaveThreshold, now>>

DoApplyTemporalDecay ==
    /\ CanStep
    /\ \E lambda \in Lambdas :
         LET r == ApplyTemporalDecay(G, now, lambda)
         IN  /\ SetGraph(r.g)
             /\ last' = Record("ApplyTemporalDecay", [lambda |-> lambda],
                               [count |-> r.count])
    /\ steps' = steps + 1
    /\ UNCHANGED concVars
    /\ UNCHANGED <<changesSinceLastSave, autoSaveThreshold, now>>

DoClear ==
    /\ CanStep
    /\ SetGraph(Clear)
    /\ changesSinceLastSave' = 0
    /\ last' = Record("Clear", NoArg, NoArg)
    /\ steps' = steps + 1
    /\ UNCHANGED concVars
    /\ UNCHANGED <<autoSaveThreshold, now>>

\* The load command: newG := Load(file); g.Replace(newG).
DoLoad ==
    /\ CanStep
    /\ \E doc \in LoadDocuments :
         /\ SetGraph(Replace(G, Load(doc)))
         /\ last' = Record("Load", [doc |-> doc], NoArg)
    /\ steps' = steps + 1
    /\ UNCHANGED concVars
    /\ UNCHANGED <<changesSinceLastSave, autoSaveThreshold, now>>

DoDiscover ==
    /\ CanStep
    /\ Len(Edges) + 2 <= MaxEdges
    /\ SetGraph(DiscoverSupplyChainRelations(G))
    /\ last' = Record("DiscoverSupplyChainRelations", NoArg,
                      [added |-> Len(DiscoverSupplyChainRelations(G).Edges)
                                   - Len(Edges)])
    /\ steps' = steps + 1
    /\ UNCHANGED concVars
    /\ UNCHANGED <<changesSinceLastSave, autoSaveThreshold, now>>

DoMigrate ==
    /\ CanStep
    /\ SetGraph(MigrateEdgeDirectionality(G))
    /\ last' = Record("MigrateEdgeDirectionality", NoArg, NoArg)
    /\ steps' = steps + 1
    /\ UNCHANGED concVars
    /\ UNCHANGED <<changesSinceLastSave, autoSaveThreshold, now>>

\* The step of a shock run that returned c.
ShockTaken(targetNodeID, impactFactor, c) ==
    /\ SetGraph(c.g)
    /\ last' = Record("RunShock", [TargetNodeID |-> targetNodeID,
                                   ImpactFactor |-> impactFactor], c)

DoRunShock ==
    /\ CanStep
    /\ \E target \in Keys, f \in ImpactFactors :
         ShockTaken(target, f, RunShock(G, now, target, f))
    /\ steps' = steps + 1
    /\ UNCHANGED concVars
    /\ UNCHANGED <<changesSinceLastSave, autoSaveThreshold, now>>

Next ==
    \/ Tick
    \/ DoAddNode
    \/ DoAddEdge
    \/ DoUpdateNodeHealth
    \/ DoUpdateEdgeWeight
    \/ DoApplyTemporalDecay
    \/ DoClear
    \/ DoLoad
    \/ DoDiscover
    \/ DoMigrate
    \/ DoRunShock

Spec == Init /\ [][Next]_vars

(******************************* claims **********************************)
Range(s) == {s[i] : i \in 1..Len(s)}

\* The positions of the edges the step just taken updated through
\* UpdateEdgeWeight: the call itself, or the calls of a shock run.
UpdatedEdges ==
    IF last.op = "UpdateEdgeWeight"
    THEN IF last.out.ok THEN {last.out.edge} ELSE {}
    ELSE IF last.op = "RunShock"
    THEN {r.edge : r \in {x \in Range(last.out.reweighted) : x.ok}}
    ELSE {}

\* The status label of the band containing weight w: Blocked below 0.1,
\* Weak below 0.3, Active below 0.7, Strong otherwise.
BandOf(w) ==
    IF w < 100 THEN "Blocked"
    ELSE IF w < 300 THEN "Weak"
    ELSE IF w < 700 THEN "Active"
    ELSE "Strong"

\* C1: in every reachable state every entity held in the store has health
\* within [0.1, 2.0].
HealthInRange ==
    \A id \in DOMAIN Nodes :
        Nodes[id].Health >= 100 /\ Nodes[id].Health <= 2000

\* C2: after every successful UpdateEdgeWeight call the edge's weight lies
\* in [0.0, 1.0] and its status is the band containing that weight.
WeightBandedAfterUpdate ==
    \A i \in UpdatedEdges :
        /\ Edges[i].Weight >= 0
        /\ Edges[i].Weight <= 1000
        /\ Edges[i].Status = BandOf(Edges[i].Weight)

\* C2 witness: an update whose decayed weight plus sentiment impact exceeds
\* 1.0 has left the edge at weight 1.0, Strong.
UpdateClampedAtCeiling ==
    /\ last.op = "UpdateEdgeWeight"
    /\ last.out.ok
    /\ last.arg.sentimentScore > 0
    /\ last.pre.Edges[last.out.edge].Weight < 1000
    /\ Edges[last.out.edge].Weight = 1000
    /\ Edges[last.out.edge].Status = "Strong"

\* The positions of the edges whose source is k, in collection order.
OutgoingOf(k) ==
    SelectSeq([i \in 1..Len(Edges) |-> i], LAMBDA i : Edges[i].SourceID = k)

\* C3: the adjacency index equals the index rebuilt from the edge
\* collection: for every key k, Adjacency[k] is exactly the sequence of the
\* edges of the collection whose source is k, in collection order.
AdjacencyMatchesEdges ==
    /\ \A k \in DOMAIN Adjacency : Adjacency[k] = OutgoingOf(k)
    /\ \A i \in 1..Len(Edges) : Edges[i].SourceID \in DOMAIN Adjacency

\* C3 witness: a discovery run has just added edges to a graph to which an
\* edge had been added before.
DiscoveryAddedEdges ==
    /\ last.op = "DiscoverSupplyChainRelations"
    /\ last.out.added > 0
    /\ last.prevOp = "AddEdge"
    /\ \E k \in DOMAIN Adjacency : Len(Adjacency[k]) >= 3

\* C4: a shock whose target key is absent from the store leaves every
\* entity, every edge (weight, timestamp, status) and every history as it
\* was before the call.
MissingTargetNoEffect ==
    (last.op = "RunShock"
       /\ last.arg.TargetNodeID \notin DOMAIN last.pre.Nodes)
    => /\ Nodes = last.pre.Nodes
       /\ Edges = last.pre.Edges
       /\ EdgeHistories = last.pre.EdgeHistories

\* C4 witness: a shock was run on a key that is absent from the store and is
\* the source of an edge and the target of another.
ShockOnMissingTarget ==
    /\ last.op = "RunShock"
    /\ last.arg.TargetNodeID \notin DOMAIN last.pre.Nodes
    /\ \E i \in 1..Len(last.pre.Edges) :
          last.pre.Edges[i].SourceID = last.arg.TargetNodeID
    /\ \E i \in 1..Len(last.pre.Edges) :
          last.pre.Edges[i].TargetID = last.arg.TargetNodeID

\* C5: a decay sweep never increases the weight of an edge, whatever the
\* time elapsed since the edge's timestamp and whatever its weight, the
\* weights below the 0.01 floor included.
DecayNeverIncreases ==
    last.op = "ApplyTemporalDecay"
    => /\ Len(Edges) = Len(last.pre.Edges)
       /\ \A i \in 1..Len(Edges) :
             Edges[i].Weight <= last.pre.Edges[i].Weight

\* C5 witness: a sweep has lowered some edge and has met an old edge whose
\* weight was below the floor.
SweepMetFadedEdge ==
    /\ last.op = "ApplyTemporalDecay"
    /\ last.out.count > 0
    /\ \E i \in 1..Len(Edges) :
          /\ last.pre.Edges[i].Weight < 10
          /\ Since(last.at, last.pre.Edges[i].Timestamp) >= 2

\* The step just taken is a decay sweep that follows another sweep with the
\* same lambda at the same clock reading.
SecondSweepAtOnce ==
    /\ last.op = "ApplyTemporalDecay"
    /\ last.prevOp = "ApplyTemporalDecay"
    /\ last.prevAt = last.at
    /\ last.prevArg.lambda = last.arg.lambda

\* C6: the second of two decay sweeps run in immediate succession, with no
\* time elapsed between them, returns 0 and leaves every edge and every
\* history as the first sweep left them.
SecondSweepChangesNothing ==
    SecondSweepAtOnce
    => /\ last.out.count = 0
       /\ Edges = last.pre.Edges
       /\ EdgeHistories = last.pre.EdgeHistories

\* C6 witness: a second sweep at once, after a first sweep that lowered an
\* edge.
SecondSweepAfterDecay ==
    /\ SecondSweepAtOnce
    /\ \E i \in 1..Len(Edges) :
          /\ Edges[i].Timestamp = last.at
          /\ LET h == EdgeHistories[HistoryKey(Edges[i])]
             IN  h[Len(h)].EventID = DecayEvent

\* The step just taken is a shock run that found its target.
ShockRan == last.op = "RunShock" /\ last.out.found

\* The positions, in the graph before the run, of the CompetesWith edges from
\* the shocked entity A to another entity C, both held in the store.
RivalEdges ==
    {i \in 1..Len(last.pre.Edges) :
        /\ last.pre.Edges[i].Type = "CompetesWith"
        /\ last.pre.Edges[i].SourceID = last.arg.TargetNodeID
        /\ last.pre.Edges[i].TargetID # last.arg.TargetNodeID
        /\ last.pre.Edges[i].TargetID \in DOMAIN last.pre.Nodes}

\* Edge i, tagged Bidirectional, is the only edge that touches its target.
SoleEdgeOfTarget(i) ==
    /\ last.pre.Edges[i].Directionality = Bidirectional
    /\ \A j \in 1..Len(last.pre.Edges) :
          j # i => /\ last.pre.Edges[j].SourceID # last.pre.Edges[i].TargetID
                   /\ last.pre.Edges[j].TargetID # last.pre.Edges[i].TargetID

\* 0.1 * (1 - effectiveImpact) * 0.3: the first-hop penalty through a
\* CompetesWith edge.
RivalPenalty ==
    (((100 * (1000 - last.out.effectiveImpact)) \div 1000) * 300) \div 1000

ShockedOrProduced ==
    {last.arg.TargetNodeID} \cup
    {last.pre.Edges[j].TargetID : j \in
        {j \in 1..Len(last.pre.Edges) :
            /\ last.pre.Edges[j].SourceID = last.arg.TargetNodeID
            /\ last.pre.Edges[j].Type = "Produces"}}

\* The entities that received the winner boost during the run.
Boosted ==
    {p.node : p \in {x \in Range(last.out.penalised) : x.hop = "winner"}}

\* C8: every entity that receives the winner boost during a shock on A is an
\* endpoint of a CompetesWith or SubstituteFor edge whose other endpoint is
\* A or a commodity A produces.
WinnersFromCompetitionEdges ==
    ShockRan
    => \A w \in Boosted :
          \E i \in 1..Len(last.pre.Edges) :
             /\ last.pre.Edges[i].Type \in {"CompetesWith", "SubstituteFor"}
             /\ \/ /\ last.pre.Edges[i].SourceID = w
                   /\ last.pre.Edges[i].TargetID \in ShockedOrProduced
                \/ /\ last.pre.Edges[i].TargetID = w
                   /\ last.pre.Edges[i].SourceID \in ShockedOrProduced

\* C9: in the first hop of a shock no edge is crossed against its
\* directionality: the forward loop re-weights no edge tagged Reverse and
\* penalises no target through one, and the reverse scan re-weights no edge
\* tagged Unidirectional and penalises no source through one.
FirstHopHonoursDirectionality ==
    ShockRan
    => /\ \A r \in Range(last.out.reweighted) :
             r.ok =>
               /\ r.hop = "first"
                  => last.pre.Edges[r.edge].Directionality # Reverse
               /\ r.hop = "reverse"
                  => last.pre.Edges[r.edge].Directionality # Unidirectional
       /\ \A p \in Range(last.out.penalised) :
             /\ p.hop = "first"
                => last.pre.Edges[p.via].Directionality # Reverse
             /\ p.hop = "reverse"
                => last.pre.Edges[p.via].Directionality # Unidirectional

\* C10: during the second-order ripple an outgoing edge of an impacted
\* entity is re-weighted only if ShouldPropagateShock(edge, TRUE) holds for
\* it.
RippleHonoursDirectionality ==
    ShockRan
    => \A r \in Range(last.out.reweighted) :
          (r.hop = "second" /\ r.ok)
          => ShouldPropagateShock(last.pre.Edges[r.edge], TRUE)

\* The number of positions of sequence s that hold x.
Count(s, x) == Cardinality({i \in 1..Len(s) : s[i] = x})

\* The graph Load returns for the document Save writes in the current state.
Reloaded == Load(Save(G))

\* C11: saving the graph and loading the saved document reproduces the same
\* entity set, the same multiset of edges (no edge added or dropped) and an
\* adjacency index identical to the one before the save.
SaveLoadReproduces ==
    /\ DOMAIN Reloaded.Nodes = DOMAIN Nodes
    /\ Len(Reloaded.Edges) = Len(Edges)
    /\ \A e \in Range(Edges) \cup Range(Reloaded.Edges) :
          Count(Reloaded.Edges, e) = Count(Edges, e)
    /\ Reloaded.Adjacency = Adjacency

\* C12: a shock on an existing target runs to its summary on every graph,
\* graphs whose edges name entity keys absent from the store included: no
\* step of the run fails fatally.
ShockRunsToCompletion ==
    ShockRan => ~last.out.panicked

\* The activation the first hop (forward loop and reverse scan) left for an
\* entity when the ripple started.
SeededActivation(id) ==
    IF id \in DOMAIN last.out.seeded THEN last.out.seeded[id] ELSE 0

\* C13: a shock run mutates weights on the first and the second hop only;
\* third-order activation values cause no mutation: every entry of the
\* impacted list is rippled with the activation the first hop gave it,
\* whatever the ripple has written to the activation map meanwhile.
ThirdOrderNeverMutates ==
    ShockRan
    => \A r \in Range(last.out.rippled) : r.activation = SeededActivation(r.node)

\* The operations that put another edge collection in place of the current
\* one.
Swaps == {"Init", "Load", "Clear"}

\* The positions of the edges the forward loop (hop "first") or the reverse
\* scan (hop "reverse") of the run propagated through.
CrossedBy(hop) ==
    {r.via : r \in {x \in Range(last.out.reweighted) : x.hop = hop}}

\* C18: a directionality tag, once set, is changed by no operation, and the
\* propagation gate decides from the tag stored on the edge, not from the
\* policy table's entry for the edge's type: the forward loop crosses the
\* target's outgoing edges tagged Unidirectional or Bidirectional and no
\* other, the reverse scan crosses edges tagged Reverse or Bidirectional
\* only.
TagIsAuthoritative ==
    /\ last.op \notin Swaps
       => \A i \in 1..Len(last.pre.Edges) :
             last.pre.Edges[i].Directionality # ""
             => /\ i <= Len(Edges)
                /\ Edges[i].Directionality = last.pre.Edges[i].Directionality
    /\ last.op = "Load"
       => \A i \in 1..Len(last.arg.doc.Edges) :
             last.arg.doc.Edges[i].Directionality # ""
             => Edges[i].Directionality = last.arg.doc.Edges[i].Directionality
    /\ (ShockRan /\ ~last.out.panicked)
       => /\ \A i \in Range(GetOutgoingEdges(last.pre, last.arg.TargetNodeID)) :
                i \in CrossedBy("first")
                <=> last.pre.Edges[i].Directionality
                       \in {Unidirectional, Bidirectional}
          /\ \A i \in CrossedBy("reverse") :
                last.pre.Edges[i].Directionality \in {Reverse, Bidirectional}

\* C18 witness: a shock has run on the source of an edge whose tag (Reverse)
\* differs from the policy table's entry for its type (Bidirectional), after
\* a directionality migration; the forward loop did not cross the edge.
TagDiffersFromTable ==
    /\ ShockRan
    /\ ~last.out.panicked
    /\ last.prevOp = "MigrateEdgeDirectionality"
    /\ \E i \in Range(GetOutgoingEdges(last.pre, last.arg.TargetNodeID)) :
          /\ Edges[i].Directionality = Reverse
          /\ GetEdgeDirectionality(Edges[i].Type) = Bidirectional
          /\ i \notin CrossedBy("first")

\* C19: UpdateEdgeWeight for a (source, target, type) triple that matches no
\* edge returns the not-found error and leaves every edge (weight, timestamp,
\* status) and every history as it was.
MissingEdgeNoEffect ==
    (last.op = "UpdateEdgeWeight"
       /\ ~HasEdge(last.pre.Edges, last.arg.sourceID, last.arg.targetID,
                   last.arg.edgeType))
    => /\ ~last.out.ok
       /\ Edges = last.pre.Edges
       /\ EdgeHistories = last.pre.EdgeHistories
       /\ Nodes = last.pre.Nodes

\* C19 witness: an update was called for a triple that matches no edge while
\* its source has outgoing edges, one of them to another target with the
\* same type.
UpdateOnMissingTriple ==
    /\ last.op = "UpdateEdgeWeight"
    /\ ~last.out.ok
    /\ \E i \in Range(GetOutgoingEdges(last.pre, last.arg.sourceID)) :
          /\ last.pre.Edges[i].Type = last.arg.edgeType
          /\ last.pre.Edges[i].TargetID # last.arg.targetID

\* C20: UpdateNodeHealth(id, delta) on an existing entity returns found and
\* the new health min(2.0, max(0.1, old health + delta)) and changes nothing
\* but that entity's health; on an absent key it returns not found and
\* changes no entity, edge or history.
HealthUpdateClamped ==
    last.op = "UpdateNodeHealth"
    => /\ Edges = last.pre.Edges
       /\ EdgeHistories = last.pre.EdgeHistories
       /\ Adjacency = last.pre.Adjacency
       /\ DOMAIN Nodes = DOMAIN last.pre.Nodes
       /\ \A id \in DOMAIN Nodes \ {last.arg.id} : Nodes[id] = last.pre.Nodes[id]
       /\ IF last.arg.id \in DOMAIN last.pre.Nodes
          THEN /\ last.out.ok
               /\ last.out.health =
                     Min(2000, Max(100, last.pre.Nodes[last.arg.id].Health
                                          + last.arg.delta))
               /\ Nodes[last.arg.id] =
                     [last.pre.Nodes[last.arg.id] EXCEPT
                        !.Health = last.out.health]
          ELSE /\ ~last.out.ok
               /\ Nodes = last.pre.Nodes

\* C20 witness: an update whose sum fell below 0.1 has left an entity, held
\* in a store with other entities and with edges, at 0.1.
HealthClampedAtFloor ==
    /\ last.op = "UpdateNodeHealth"
    /\ last.out.ok
    /\ last.pre.Nodes[last.arg.id].Health + last.arg.delta < 100
    /\ Nodes[last.arg.id].Health = 100
    /\ Cardinality(DOMAIN Nodes) > 1
    /\ Len(Edges) > 0

(************************* the goroutines' program ************************)
\* Specification ConcSpec: the shock simulator (RunShock, one step per store
\* call or per read through a pointer the store returned), the load command
\* (Load, then Replace one assignment at a time), the decay worker and the
\* auto-save timer run side by side on one store.  A store call that locks,
\* works and unlocks is one step, taken when the lock is to be had; Replace,
\* Save and the snapshot helpers hold the lock over several steps.

\* A pointer to an entity or an edge: the number of the collection it points
\* into and the key or position there.  Nil is the nil pointer.
Nil == [gen |-> -1, id |-> "", idx |-> 0]

NodePtr(id) == [gen |-> gen.Nodes, id |-> id]

\* *p for an entity pointer and for an edge pointer.
DerefNode(p) ==
    IF p.gen = gen.Nodes THEN Nodes[p.id] ELSE retired.Nodes[p.id]
DerefEdge(p) ==
    IF p.gen = gen.Edges THEN Edges[p.idx] ELSE retired.Edges[p.idx]

\* GetNode: the pointer the store holds for id, nil if absent.
GetNodePtr(id) == IF id \in DOMAIN Nodes THEN NodePtr(id) ELSE Nil

\* GetOutgoingEdges: a copy of the list of pointers of id.
GetOutgoingPtrs(id) ==
    LET list == GetOutgoingEdges(G, id)
    IN  [k \in 1..Len(list) |-> [gen |-> gen.Adjacency, idx |-> list[k]]]

\* The snapshot EdgesRange takes: the pointers of g.Edges.
EdgesSnapshot == [i \in 1..Len(Edges) |-> [gen |-> gen.Edges, idx |-> i]]

\* The snapshot NodesRange takes: the pointers of g.Nodes.
NodesSnapshot ==
    LET ks == NodesRange(G) IN [k \in 1..Len(ks) |-> NodePtr(ks[k])]

\* The objects the pointers of list point to, as they are now.
Copies(list) == [k \in 1..Len(list) |-> DerefEdge(list[k])]

\* A read of a field through a pointer outside the lock: the field, the value
\* read, and the value the field had when the store returned the pointer.
Read(field, got, held) == [field |-> field, got |-> got, held |-> held]

\* The locals of RunShock when it is called.  target, other and downstream
\* are entity pointers; list and inner are the slices being ranged over (k
\* and j the positions reached), held the objects of list as they were when
\* the store returned it; reads records the reads made outside the lock and
\* is never read by the run.
SimLocals(targetNodeID, impactFactor) ==
    [TargetNodeID |-> targetNodeID, ImpactFactor |-> impactFactor,
     target |-> Nil, targetHeld |-> NoArg, effectiveImpact |-> 0,
     activationMap |-> <<>>, impactedNodeIDs |-> <<>>, winners |-> <<>>,
     list |-> <<>>, held |-> <<>>, k |-> 0, other |-> Nil,
     inner |-> <<>>, j |-> 0, downstream |-> Nil, activation |-> 0,
     commodityID |-> "", reads |-> <<>>, before |-> G]

SimGoes(p) == pc' = [pc EXCEPT !["sim"] = p]
SimKeeps == UNCHANGED <<newG, saved, gen>> /\ UNCHANGED seqVars
StoreSame == UNCHANGED <<Nodes, Edges, EdgeHistories, Adjacency, retired>>
SetStore(g) == SetGraph(g) /\ UNCHANGED retired

\* ShouldPropagateShock writes the resolved tag through the pointer p.
TagThrough(p) ==
    /\ Edges' = IF p.gen = gen.Edges
                THEN [Edges EXCEPT ![p.idx].Directionality =
                                       ResolvedDirectionality(Edges[p.idx])]
                ELSE Edges
    /\ retired' = IF p.gen = gen.Edges THEN retired
                  ELSE [retired EXCEPT !.Edges[p.idx].Directionality =
                           ResolvedDirectionality(retired.Edges[p.idx])]
    /\ UNCHANGED <<Nodes, EdgeHistories, Adjacency>>

\* The edge the loop over list is at, and the object held for it.
CurEdge == DerefEdge(sim.list[sim.k])
CurHeld == sim.held[sim.k]

\* part_005:29  target, ok := s.Graph.GetNode(event.TargetNodeID)
SimLookup ==
    /\ pc["sim"] = "lookup"
    /\ CanRLock(mu)
    /\ mu' = RUnlock(RLock(mu, "sim"), "sim")
    /\ IF GetNode(G, sim.TargetNodeID)
       THEN /\ sim' = [sim EXCEPT !.target = NodePtr(sim.TargetNodeID),
                                  !.targetHeld = Nodes[sim.TargetNodeID]]
            /\ SimGoes("resilience")
       ELSE /\ sim' = sim
            /\ SimGoes("done")
    /\ StoreSame
    /\ SimKeeps

\* part_005:37-52  resilience := target.Health ... effectiveImpact
SimResilience ==
    /\ pc["sim"] = "resilience"
    /\ sim' = [sim EXCEPT
                 !.effectiveImpact =
                     EffectiveImpact(DerefNode(sim.target).Health,
                                     sim.ImpactFactor),
                 !.reads = Append(@, Read("target.Health",
                                          DerefNode(sim.target).Health,
                                          sim.targetHeld.Health))]
    /\ SimGoes("damage")
    /\ UNCHANGED mu
    /\ StoreSame
    /\ SimKeeps

\* part_005:55-62  s.Graph.UpdateNodeHealth(event.TargetNodeID, -0.2)
SimDamage ==
    /\ pc["sim"] = "damage"
    /\ CanLock(mu)
    /\ mu' = Unlock(Lock(mu, "sim"), "sim")
    /\ SetStore(UpdateNodeHealth(G, sim.TargetNodeID, -HealthPenalty).g)
    /\ sim' = [sim EXCEPT !.activationMap =
                  (sim.TargetNodeID :> (Scale - sim.effectiveImpact))]
    /\ SimGoes("outgoing")
    /\ SimKeeps

\* part_005:65-67  outgoing := s.Graph.GetOutgoingEdges(event.TargetNodeID)
SimOutgoing ==
    /\ pc["sim"] = "outgoing"
    /\ CanRLock(mu)
    /\ mu' = RUnlock(RLock(mu, "sim"), "sim")
    /\ sim' = [sim EXCEPT !.list = GetOutgoingPtrs(sim.TargetNodeID),
                          !.held = Copies(GetOutgoingPtrs(sim.TargetNodeID)),
                          !.k = 1]
    /\ SimGoes("first")
    /\ StoreSame
    /\ SimKeeps


\* part_005:69-75  for _, e := range outgoing { if !ShouldPropagateShock ...
SimFirstGate ==
    /\ pc["sim"] = "first"
    /\ IF sim.k > Len(sim.list)
       THEN /\ sim' = sim
            /\ SimGoes("scan")
            /\ StoreSame
       ELSE /\ TagThrough(sim.list[sim.k])
            /\ IF ShouldPropagateShock(CurEdge, TRUE)
               THEN sim' = sim /\ SimGoes("first_neighbor")
               ELSE sim' = [sim EXCEPT !.k = @ + 1] /\ SimGoes("first")
    /\ UNCHANGED mu
    /\ SimKeeps

\* part_005:77-78  neighbor, _ := s.Graph.GetNode(e.TargetID);
\*                 originalWeight := e.Weight
SimFirstNeighbor ==
    /\ pc["sim"] = "first_neighbor"
    /\ CanRLock(mu)
    /\ mu' = RUnlock(RLock(mu, "sim"), "sim")
    /\ sim' = [sim EXCEPT
                 !.other = GetNodePtr(CurEdge.TargetID),
                 !.reads = Append(@, Read("e.Weight", CurEdge.Weight,
                                          CurHeld.Weight))]
    /\ SimGoes("first_update")
    /\ StoreSame
    /\ SimKeeps

\* part_005:87-91  s.Graph.UpdateEdgeWeight(e.SourceID, e.TargetID, e.Type,
\*                 sentimentScore, relevanceScore, eventID)
SimFirstUpdate ==
    /\ pc["sim"] = "first_update"
    /\ CanLock(mu)
    /\ mu' = Unlock(Lock(mu, "sim"), "sim")
    /\ LET r == UpdateEdgeWeight(G, now, CurEdge.SourceID, CurEdge.TargetID,
                                 CurEdge.Type, -(Scale - sim.effectiveImpact),
                                 Scale,
                                 EventID("shock", sim.TargetNodeID,
                                         Cardinality(DOMAIN sim.activationMap),
                                         ""))
       IN  /\ SetStore(r.g)
           /\ IF r.ok
              THEN sim' = sim /\ SimGoes("first_activate")
              ELSE sim' = [sim EXCEPT !.k = @ + 1] /\ SimGoes("first")
    /\ SimKeeps

\* part_005:92-97  neighbor.Name; activationMap[e.TargetID] =
\*                 (1.0 - effectiveImpact) * e.Weight * propagationFactor
SimFirstActivate ==
    /\ pc["sim"] = "first_activate"
    /\ IF sim.other = Nil
       THEN sim' = sim /\ SimGoes("panicked")
       ELSE /\ sim' = [sim EXCEPT
                   !.activationMap =
                       (CurEdge.TargetID :>
                           Mul(Mul(Scale - sim.effectiveImpact, CurEdge.Weight),
                               GetShockPropagationFactor(CurEdge.Type))) @@ @,
                   !.reads = Append(@, Read("e.Weight", CurEdge.Weight,
                                            CurHeld.Weight))]
            /\ SimGoes("first_health")
    /\ UNCHANGED mu
    /\ StoreSame
    /\ SimKeeps

\* part_005:100-103  s.Graph.UpdateNodeHealth(e.TargetID, healthDelta);
\*                   impactedNodeIDs = append(impactedNodeIDs, e.TargetID)
SimFirstHealth ==
    /\ pc["sim"] = "first_health"
    /\ CanLock(mu)
    /\ mu' = Unlock(Lock(mu, "sim"), "sim")
    /\ SetStore(UpdateNodeHealth(G, CurEdge.TargetID,
                   -Mul(Mul(FirstOrderBase, Scale - sim.effectiveImpact),
                        GetShockPropagationFactor(CurEdge.Type))).g)
    /\ sim' = [sim EXCEPT !.impactedNodeIDs = Append(@, CurEdge.TargetID),
                          !.k = @ + 1]
    /\ SimGoes("first")
    /\ SimKeeps


\* RangeUnlock without the release.
RangeKeepsLock(m, p) == m

\* model.go:434, 447  g.mu.RUnlock() of NodesRange and EdgesRange, before
\* the callbacks run.
RangeUnlock(m, p) == RUnlock(m, p)

\* part_005:217, model.go:443-446  EdgesRange takes the read lock and copies
\* g.Edges.
SimScanLock ==
    /\ pc["sim"] = "scan"
    /\ CanRLock(mu)
    /\ mu' = RLock(mu, "sim")
    /\ sim' = [sim EXCEPT !.list = EdgesSnapshot,
                          !.held = Copies(EdgesSnapshot),
                          !.k = 1]
    /\ SimGoes("scan_unlock")
    /\ StoreSame
    /\ SimKeeps

\* model.go:447  g.mu.RUnlock()
SimScanUnlock ==
    /\ pc["sim"] = "scan_unlock"
    /\ mu' = RangeUnlock(mu, "sim")
    /\ sim' = sim
    /\ SimGoes("reverse")
    /\ StoreSame
    /\ SimKeeps

\* part_005:218-225  the callback: edge.TargetID != targetNodeID,
\*                   !ShouldPropagateShock(edge, false)
SimReverseGate ==
    /\ pc["sim"] = "reverse"
    /\ IF sim.k > Len(sim.list)
       THEN /\ sim' = sim
            /\ SimGoes("winners")
            /\ StoreSame
       ELSE IF CurEdge.TargetID # sim.TargetNodeID
       THEN /\ sim' = [sim EXCEPT !.k = @ + 1]
            /\ SimGoes("reverse")
            /\ StoreSame
       ELSE /\ TagThrough(sim.list[sim.k])
            /\ IF ShouldPropagateShock(CurEdge, FALSE)
               THEN sim' = sim /\ SimGoes("reverse_upstream")
               ELSE sim' = [sim EXCEPT !.k = @ + 1] /\ SimGoes("reverse")
    /\ UNCHANGED mu
    /\ SimKeeps

\* part_005:228-234  upstream, ok := s.Graph.GetNode(edge.SourceID);
\*                   originalWeight := edge.Weight
SimReverseUpstream ==
    /\ pc["sim"] = "reverse_upstream"
    /\ CanRLock(mu)
    /\ mu' = RUnlock(RLock(mu, "sim"), "sim")
    /\ IF GetNodePtr(CurEdge.SourceID) = Nil
       THEN sim' = [sim EXCEPT !.k = @ + 1] /\ SimGoes("reverse")
       ELSE /\ sim' = [sim EXCEPT
                   !.other = GetNodePtr(CurEdge.SourceID),
                   !.reads = Append(@, Read("edge.Weight", CurEdge.Weight,
                                            CurHeld.Weight))]
            /\ SimGoes("reverse_update")
    /\ StoreSame
    /\ SimKeeps

\* part_005:237-241  s.Graph.UpdateEdgeWeight(edge.SourceID, edge.TargetID,
\*                   edge.Type, sentimentScore, relevanceScore, eventID)
SimReverseUpdate ==
    /\ pc["sim"] = "reverse_update"
    /\ CanLock(mu)
    /\ mu' = Unlock(Lock(mu, "sim"), "sim")
    /\ LET r == UpdateEdgeWeight(G, now, CurEdge.SourceID, CurEdge.TargetID,
                                 CurEdge.Type, -(Scale - sim.effectiveImpact),
                                 Scale,
                                 EventID("shock_reverse", sim.TargetNodeID, 0,
                                         ""))
       IN  /\ SetStore(r.g)
           /\ IF r.ok
              THEN sim' = sim /\ SimGoes("reverse_activate")
              ELSE sim' = [sim EXCEPT !.k = @ + 1] /\ SimGoes("reverse")
    /\ SimKeeps

\* part_005:246  activationMap[edge.SourceID] =
\*               (1.0 - effectiveImpact) * edge.Weight * propagationFactor
SimReverseActivate ==
    /\ pc["sim"] = "reverse_activate"
    /\ sim' = [sim EXCEPT
                 !.activationMap =
                     (CurEdge.SourceID :>
                         Mul(Mul(Scale - sim.effectiveImpact, CurEdge.Weight),
                             GetShockPropagationFactor(CurEdge.Type))) @@ @,
                 !.reads = Append(@, Read("edge.Weight", CurEdge.Weight,
                                          CurHeld.Weight))]
    /\ SimGoes("reverse_health")
    /\ UNCHANGED mu
    /\ StoreSame
    /\ SimKeeps

\* part_005:249-252  s.Graph.UpdateNodeHealth(edge.SourceID, healthDelta);
\*                   *impactedNodeIDs = append(*impactedNodeIDs, edge.SourceID)
SimReverseHealth ==
    /\ pc["sim"] = "reverse_health"
    /\ CanLock(mu)
    /\ mu' = Unlock(Lock(mu, "sim"), "sim")
    /\ SetStore(UpdateNodeHealth(G, CurEdge.SourceID,
                   -Mul(Mul(ReverseBase, Scale - sim.effectiveImpact),
                        GetShockPropagationFactor(CurEdge.Type))).g)
    /\ sim' = [sim EXCEPT !.impactedNodeIDs = Append(@, CurEdge.SourceID),
                          !.k = @ + 1]
    /\ SimGoes("reverse")
    /\ SimKeeps


\* The edge the inner loop is at.
InnerEdge == DerefEdge(sim.inner[sim.j])

\* part_005:163-169  shockedNode, ok := s.Graph.GetNode(shockedNodeID);
\*                   shockedNode.Type
SimWinLookup ==
    /\ pc["sim"] = "winners"
    /\ CanRLock(mu)
    /\ mu' = RUnlock(RLock(mu, "sim"), "sim")
    /\ sim' = sim
    /\ IF GetNodePtr(sim.TargetNodeID) = Nil
       THEN SimGoes("boost")
       ELSE IF Nodes[sim.TargetNodeID].Type \in {"Nation", "RawMaterial"}
       THEN SimGoes("win_outgoing")
       ELSE SimGoes("win_scan")
    /\ StoreSame
    /\ SimKeeps

\* part_005:171  outgoing := s.Graph.GetOutgoingEdges(shockedNodeID)
SimWinOutgoing ==
    /\ pc["sim"] = "win_outgoing"
    /\ CanRLock(mu)
    /\ mu' = RUnlock(RLock(mu, "sim"), "sim")
    /\ sim' = [sim EXCEPT !.list = GetOutgoingPtrs(sim.TargetNodeID),
                          !.held = Copies(GetOutgoingPtrs(sim.TargetNodeID)),
                          !.k = 1]
    /\ SimGoes("win_produces")
    /\ StoreSame
    /\ SimKeeps

\* part_005:172-176  for _, e := range outgoing { if e.Type == Produces
SimWinProduces ==
    /\ pc["sim"] = "win_produces"
    /\ IF sim.k > Len(sim.list)
       THEN sim' = sim /\ SimGoes("win_scan")
       ELSE IF CurEdge.Type = "Produces"
       THEN sim' = [sim EXCEPT !.commodityID = CurEdge.TargetID]
            /\ SimGoes("sub")
       ELSE sim' = [sim EXCEPT !.k = @ + 1] /\ SimGoes("win_produces")
    /\ UNCHANGED mu
    /\ StoreSame
    /\ SimKeeps

\* part_005:202, model.go:428-433  NodesRange takes the read lock and
\* collects the pointers of g.Nodes.
SimSubLock ==
    /\ pc["sim"] = "sub"
    /\ CanRLock(mu)
    /\ mu' = RLock(mu, "sim")
    /\ sim' = [sim EXCEPT !.inner = NodesSnapshot, !.j = 1]
    /\ SimGoes("sub_unlock")
    /\ StoreSame
    /\ SimKeeps

\* model.go:434  g.mu.RUnlock()
SimSubUnlock ==
    /\ pc["sim"] = "sub_unlock"
    /\ mu' = RangeUnlock(mu, "sim")
    /\ sim' = sim
    /\ SimGoes("sub_visit")
    /\ StoreSame
    /\ SimKeeps

\* part_005:203-208  the callback: edges := s.Graph.GetOutgoingEdges(n.ID)
\*                   and the winners among them
SimSubVisit ==
    /\ pc["sim"] = "sub_visit"
    /\ IF sim.j > Len(sim.inner)
       THEN /\ sim' = [sim EXCEPT !.k = @ + 1]
            /\ SimGoes("win_produces")
            /\ UNCHANGED mu
       ELSE /\ CanRLock(mu)
            /\ mu' = RUnlock(RLock(mu, "sim"), "sim")
            /\ sim' = [sim EXCEPT
                        !.winners = @ \o ProducerEntries(G, sim.inner[sim.j].id,
                                                        sim.commodityID),
                        !.j = @ + 1]
            /\ SimGoes("sub_visit")
    /\ StoreSame
    /\ SimKeeps

\* part_005:182, model.go:443-446  EdgesRange takes the read lock and copies
\* g.Edges.
SimWinScanLock ==
    /\ pc["sim"] = "win_scan"
    /\ CanRLock(mu)
    /\ mu' = RLock(mu, "sim")
    /\ sim' = [sim EXCEPT !.list = EdgesSnapshot,
                          !.held = Copies(EdgesSnapshot),
                          !.k = 1]
    /\ SimGoes("win_scan_unlock")
    /\ StoreSame
    /\ SimKeeps

\* model.go:447  g.mu.RUnlock()
SimWinScanUnlock ==
    /\ pc["sim"] = "win_scan_unlock"
    /\ mu' = RangeUnlock(mu, "sim")
    /\ sim' = sim
    /\ SimGoes("win_visit")
    /\ StoreSame
    /\ SimKeeps

\* part_005:183-195  the callbacks: none calls the store.
SimWinVisit ==
    /\ pc["sim"] = "win_visit"
    /\ sim' = [sim EXCEPT
                 !.winners = @ \o ConcatAll([i \in 1..Len(sim.list) |->
                                 CompetitorEntries(DerefEdge(sim.list[i]),
                                                   sim.TargetNodeID)]),
                 !.k = 1]
    /\ SimGoes("boost")
    /\ UNCHANGED mu
    /\ StoreSame
    /\ SimKeeps

\* part_005:114-117  for _, winnerID := range winners {
\*                   winner, _ := s.Graph.GetNode(winnerID)
SimBoostLookup ==
    /\ pc["sim"] = "boost"
    /\ IF sim.k > Len(sim.winners)
       THEN /\ sim' = [sim EXCEPT !.k = 1]
            /\ SimGoes("ripple")
            /\ UNCHANGED mu
       ELSE /\ CanRLock(mu)
            /\ mu' = RUnlock(RLock(mu, "sim"), "sim")
            /\ sim' = [sim EXCEPT !.other = GetNodePtr(sim.winners[sim.k])]
            /\ SimGoes("boost_health")
    /\ StoreSame
    /\ SimKeeps

\* part_005:118-121  winner.Name; s.Graph.UpdateNodeHealth(winnerID, +0.15)
SimBoostHealth ==
    /\ pc["sim"] = "boost_health"
    /\ IF sim.other = Nil
       THEN /\ sim' = sim
            /\ SimGoes("panicked")
            /\ UNCHANGED mu
            /\ StoreSame
       ELSE /\ CanLock(mu)
            /\ mu' = Unlock(Lock(mu, "sim"), "sim")
            /\ SetStore(UpdateNodeHealth(G, sim.winners[sim.k],
                                         WinnerBoost).g)
            /\ sim' = [sim EXCEPT !.k = @ + 1]
            /\ SimGoes("boost")
    /\ SimKeeps


\* part_005:126-134  for _, impactedID := range impactedNodeIDs {
\*                   impactedNode, _ := s.Graph.GetNode(impactedID);
\*                   activation := activationMap[impactedID]
SimRippleLookup ==
    /\ pc["sim"] = "ripple"
    /\ IF sim.k > Len(sim.impactedNodeIDs)
       THEN /\ sim' = sim
            /\ SimGoes("done")
            /\ UNCHANGED mu
       ELSE /\ CanRLock(mu)
            /\ mu' = RUnlock(RLock(mu, "sim"), "sim")
            /\ LET impactedID == sim.impactedNodeIDs[sim.k]
                   activation == IF impactedID \in DOMAIN sim.activationMap
                                 THEN sim.activationMap[impactedID] ELSE 0
               IN  IF activation < RippleThreshold
                   THEN sim' = [sim EXCEPT !.other = GetNodePtr(impactedID),
                                           !.activation = activation,
                                           !.k = @ + 1]
                        /\ SimGoes("ripple")
                   ELSE sim' = [sim EXCEPT !.other = GetNodePtr(impactedID),
                                           !.activation = activation]
                        /\ SimGoes("ripple_outgoing")
    /\ StoreSame
    /\ SimKeeps

\* part_005:136  secondaryOutgoing := s.Graph.GetOutgoingEdges(impactedID)
SimRippleOutgoing ==
    /\ pc["sim"] = "ripple_outgoing"
    /\ CanRLock(mu)
    /\ mu' = RUnlock(RLock(mu, "sim"), "sim")
    /\ sim' = [sim EXCEPT
                 !.inner = GetOutgoingPtrs(sim.impactedNodeIDs[sim.k]),
                 !.j = 1]
    /\ SimGoes("ripple_downstream")
    /\ StoreSame
    /\ SimKeeps

\* part_005:137-138  for _, e := range secondaryOutgoing {
\*                   downstream, _ := s.Graph.GetNode(e.TargetID)
SimRippleDownstream ==
    /\ pc["sim"] = "ripple_downstream"
    /\ IF sim.j > Len(sim.inner)
       THEN /\ sim' = [sim EXCEPT !.k = @ + 1]
            /\ SimGoes("ripple")
            /\ UNCHANGED mu
       ELSE /\ CanRLock(mu)
            /\ mu' = RUnlock(RLock(mu, "sim"), "sim")
            /\ sim' = [sim EXCEPT
                         !.downstream = GetNodePtr(InnerEdge.TargetID)]
            /\ SimGoes("ripple_update")
    /\ StoreSame
    /\ SimKeeps

\* part_005:141-145  s.Graph.UpdateEdgeWeight(e.SourceID, e.TargetID, e.Type,
\*                   sentimentScore, relevanceScore, eventID)
SimRippleUpdate ==
    /\ pc["sim"] = "ripple_update"
    /\ CanLock(mu)
    /\ mu' = Unlock(Lock(mu, "sim"), "sim")
    /\ SetStore(UpdateEdgeWeight(G, now, InnerEdge.SourceID,
                                 InnerEdge.TargetID, InnerEdge.Type,
                                 -Mul(sim.activation, RippleAttenuation),
                                 RippleRelevance,
                                 EventID("shock_2nd", sim.TargetNodeID, 0,
                                         sim.impactedNodeIDs[sim.k])).g)
    /\ sim' = sim
    /\ SimGoes("ripple_third")
    /\ SimKeeps

\* part_005:147-152  impactedNode.Name, downstream.Name;
\*                   if activation > 0.15 { activationMap[e.TargetID] = ...
SimRippleThird ==
    /\ pc["sim"] = "ripple_third"
    /\ IF sim.other = Nil \/ sim.downstream = Nil
       THEN sim' = sim /\ SimGoes("panicked")
       ELSE sim' = [sim EXCEPT
                      !.activationMap =
                          IF sim.activation > ThirdOrderThreshold
                          THEN (InnerEdge.TargetID :>
                                   Mul(sim.activation, ThirdOrderShare)) @@ @
                          ELSE @,
                      !.j = @ + 1]
            /\ SimGoes("ripple_downstream")
    /\ UNCHANGED mu
    /\ StoreSame
    /\ SimKeeps

\* RunShock, one step at a time.
SimStep ==
    \/ SimLookup
    \/ SimResilience
    \/ SimDamage
    \/ SimOutgoing
    \/ SimFirstGate
    \/ SimFirstNeighbor
    \/ SimFirstUpdate
    \/ SimFirstActivate
    \/ SimFirstHealth
    \/ SimScanLock
    \/ SimScanUnlock
    \/ SimReverseGate
    \/ SimReverseUpstream
    \/ SimReverseUpdate
    \/ SimReverseActivate
    \/ SimReverseHealth
    \/ SimWinLookup
    \/ SimWinOutgoing
    \/ SimWinProduces
    \/ SimSubLock
    \/ SimSubUnlock
    \/ SimSubVisit
    \/ SimWinScanLock
    \/ SimWinScanUnlock
    \/ SimWinVisit
    \/ SimBoostLookup
    \/ SimBoostHealth
    \/ SimRippleLookup
    \/ SimRippleOutgoing
    \/ SimRippleDownstream
    \/ SimRippleUpdate
    \/ SimRippleThird


Goes(p, to) == pc' = [pc EXCEPT ![p] = to]

\* The documents the load command reads while a shock runs.
ConcLoadDocuments == {StaleDoc}

\* main.go:316  newG, err := graph.Load(parts[1])
LoadRead ==
    /\ pc["loader"] = "load"
    /\ \E doc \in ConcLoadDocuments : newG' = Load(doc)
    /\ Goes("loader", "replace")
    /\ UNCHANGED <<mu, saved, sim, gen>>
    /\ StoreSame
    /\ UNCHANGED seqVars

\* model.go:531  g.mu.Lock()
ReplaceLock ==
    /\ pc["loader"] = "replace"
    /\ CanLock(mu)
    /\ mu' = Lock(mu, "loader")
    /\ Goes("loader", "nodes")
    /\ UNCHANGED <<newG, saved, sim, gen>>
    /\ StoreSame
    /\ UNCHANGED seqVars

\* model.go:533  g.Nodes = other.Nodes
ReplaceNodes ==
    /\ pc["loader"] = "nodes"
    /\ Nodes' = newG.Nodes
    /\ retired' = [retired EXCEPT !.Nodes = Nodes]
    /\ gen' = [gen EXCEPT !.Nodes = @ + 1]
    /\ Goes("loader", "edges")
    /\ UNCHANGED <<Edges, EdgeHistories, Adjacency, mu, newG, saved, sim>>
    /\ UNCHANGED seqVars

\* model.go:534  g.Edges = other.Edges
ReplaceEdges ==
    /\ pc["loader"] = "edges"
    /\ Edges' = newG.Edges
    /\ retired' = [retired EXCEPT !.Edges = Edges]
    /\ gen' = [gen EXCEPT !.Edges = @ + 1]
    /\ Goes("loader", "histories")
    /\ UNCHANGED <<Nodes, EdgeHistories, Adjacency, mu, newG, saved, sim>>
    /\ UNCHANGED seqVars

\* model.go:535  g.EdgeHistories = other.EdgeHistories
ReplaceHistories ==
    /\ pc["loader"] = "histories"
    /\ EdgeHistories' = newG.EdgeHistories
    /\ retired' = [retired EXCEPT !.EdgeHistories = EdgeHistories]
    /\ gen' = [gen EXCEPT !.EdgeHistories = @ + 1]
    /\ Goes("loader", "adjacency")
    /\ UNCHANGED <<Nodes, Edges, Adjacency, mu, newG, saved, sim>>
    /\ UNCHANGED seqVars

\* model.go:538-541  g.Adjacency = make(...); for _, e := range other.Edges
ReplaceAdjacency ==
    /\ pc["loader"] = "adjacency"
    /\ Adjacency' = RebuildAdjacency(newG.Edges)
    /\ retired' = [retired EXCEPT !.Adjacency = Adjacency]
    /\ gen' = [gen EXCEPT !.Adjacency = @ + 1]
    /\ Goes("loader", "unlock")
    /\ UNCHANGED <<Nodes, Edges, EdgeHistories, mu, newG, saved, sim>>
    /\ UNCHANGED seqVars

\* model.go:532  defer g.mu.Unlock()
ReplaceUnlock ==
    /\ pc["loader"] = "unlock"
    /\ mu' = Unlock(mu, "loader")
    /\ Goes("loader", "done")
    /\ UNCHANGED <<newG, saved, sim, gen>>
    /\ StoreSame
    /\ UNCHANGED seqVars

\* main.go:123  the decay rate of the worker (0.05 per day).
WorkerLambda == 50

\* model.go:604  count := g.ApplyTemporalDecay(lambda), the whole sweep under
\* the write lock.
WorkerSweep ==
    /\ pc["worker"] = "sweep"
    /\ CanLock(mu)
    /\ mu' = Unlock(Lock(mu, "worker"), "worker")
    /\ SetStore(ApplyTemporalDecay(G, now, WorkerLambda).g)
    /\ Goes("worker", "done")
    /\ UNCHANGED <<newG, saved, sim, gen>>
    /\ UNCHANGED seqVars

\* main.go:162, model.go:456  g.Save(...): g.mu.RLock()
SaveLock ==
    /\ pc["saver"] = "save"
    /\ CanRLock(mu)
    /\ mu' = RLock(mu, "saver")
    /\ Goes("saver", "marshal")
    /\ UNCHANGED <<newG, saved, sim, gen>>
    /\ StoreSame
    /\ UNCHANGED seqVars

\* model.go:457-464  json.MarshalIndent(g, ...), os.WriteFile, RUnlock.
\* saved is the document written; at records where the shock run was, and
\* is read by no goroutine.
SaveMarshal ==
    /\ pc["saver"] = "marshal"
    /\ saved' = [doc |-> Save(G), at |-> pc["sim"]]
    /\ mu' = RUnlock(mu, "saver")
    /\ Goes("saver", "done")
    /\ UNCHANGED <<newG, sim, gen>>
    /\ StoreSame
    /\ UNCHANGED seqVars

\* The stores the goroutines start on, and the shocks the news engine runs.
ConcDocuments == {ChainDoc, ProducerDoc, DanglingDoc}
ConcTargets == {"a", "b"}
ConcImpactFactors == {500}

\* main.go:60-166: the store loaded, the goroutines started; the news engine
\* is about to call RunShock.
ConcInit ==
    /\ \E doc \in ConcDocuments :
         LET g == Load(doc)
         IN  /\ Nodes = g.Nodes
             /\ Edges = g.Edges
             /\ EdgeHistories = g.EdgeHistories
             /\ Adjacency = g.Adjacency
             /\ \E target \in ConcTargets, f \in ConcImpactFactors :
                  sim = [SimLocals(target, f) EXCEPT !.before = g]
    /\ changesSinceLastSave = 0
    /\ autoSaveThreshold = 10
    /\ now = StartTime
    /\ steps = 0
    /\ last = [op |-> "Init", arg |-> NoArg, pre |-> EmptyGraph,
               out |-> NoArg, at |-> StartTime, prevOp |-> "",
               prevArg |-> NoArg, prevAt |-> StartTime]
    /\ mu = Free
    /\ pc = [p \in Procs |->
               CASE p = "sim" -> "lookup"
                 [] p = "loader" -> "load"
                 [] p = "worker" -> "sweep"
                 [] p = "saver" -> "save"]
    /\ newG = EmptyGraph
    /\ saved = NoArg
    /\ gen = FirstGen
    /\ retired = EmptyGraph

ConcNext ==
    \/ SimStep
    \/ LoadRead
    \/ ReplaceLock
    \/ ReplaceNodes
    \/ ReplaceEdges
    \/ ReplaceHistories
    \/ ReplaceAdjacency
    \/ ReplaceUnlock
    \/ WorkerSweep
    \/ SaveLock
    \/ SaveMarshal

ConcSpec == ConcInit /\ [][ConcNext]_vars


(****************** claims about the goroutines (ConcSpec) *****************)
\* C14: what a store read returns is isolated from the store: every value a
\* shock run reads through a pointer the store returned (target.Health,
\* e.Weight, edge.Weight) is the value the object had when the store
\* returned the pointer.
HeldValuesIsolated ==
    \A i \in DOMAIN sim.reads : sim.reads[i].got = sim.reads[i].held


\* The places of a shock run inside a callback of NodesRange or EdgesRange.
CallbackPcs ==
    {"reverse", "reverse_upstream", "reverse_update", "reverse_activate",
     "reverse_health", "sub_visit", "win_visit"}

\* Another goroutine holds the lock (and gives it back without waiting).
HeldByOther == mu.writer \notin {"none", "sim"} \/ mu.readers \ {"sim"} # {}

\* The store call the callback is at can take the lock it asks for.
CallbackCanStep ==
    /\ pc["sim"] \in {"reverse_update", "reverse_health"} => CanLock(mu)
    /\ pc["sim"] \in {"reverse_upstream", "sub_visit"} => CanRLock(mu)

\* C15: NodesRange and EdgesRange hold no store lock while the callback
\* runs, so a callback that calls the store never deadlocks: inside a
\* callback the shock run holds neither the read nor the write lock, and
\* the store call it is at can take its lock unless another goroutine holds
\* it.
CallbacksNeverDeadlock ==
    pc["sim"] \in CallbackPcs =>
        /\ "sim" \notin mu.readers
        /\ mu.writer # "sim"
        /\ CallbackCanStep \/ HeldByOther

\* The reverse scan's callback has updated an edge weight and waits to
\* update the upstream entity's health while the auto-save holds the read
\* lock and the load command waits for the write lock.
CallbackWroteAmongOthers ==
    /\ pc["sim"] = "reverse_health"
    /\ pc["saver"] = "marshal"
    /\ pc["loader"] = "replace"


\* The four collections of the store are those of one graph, and the
\* adjacency index is the index rebuilt from the edge collection.
Coherent ==
    /\ gen.Nodes = gen.Edges
    /\ gen.Edges = gen.EdgeHistories
    /\ gen.EdgeHistories = gen.Adjacency
    /\ Adjacency = RebuildAdjacency(Edges)

ShockTarget == sim.TargetNodeID

\* The edges out of the target that the first hop propagates through, in
\* the store as the run found it.
PropagatingEdges ==
    {i \in Range(GetOutgoingEdges(sim.before, ShockTarget)) :
        ShouldPropagateShock(sim.before.Edges[i], TRUE)}

\* C17: a shock run is not atomic: it never holds the write lock from one
\* of its store calls to the next.
ShockReleasesBetweenCalls == mu.writer # "sim"

\* The auto-save, alone with the shock run, wrote a document in which the
\* target's health is 0.2 lower than before the shock and an outgoing edge
\* the run has re-weighted since still has its weight from before the shock.
PartialShockSaved ==
    /\ saved # NoArg
    /\ pc["loader"] = "load"
    /\ pc["worker"] = "sweep"
    /\ ShockTarget \in DOMAIN sim.before.Nodes
    /\ saved.doc.Nodes[ShockTarget].Health =
           sim.before.Nodes[ShockTarget].Health - HealthPenalty
    /\ \E i \in PropagatingEdges :
          /\ saved.doc.Edges[i].Weight = sim.before.Edges[i].Weight
          /\ Edges[i].Weight # sim.before.Edges[i].Weight


(*********************** claims about the store, II ***********************)
\* The history kept under key in histories h; empty if there is none.
HistoryOf(h, key) == IF key \in DOMAIN h THEN h[key] ELSE <<>>

\* Whether sequence s is a prefix of sequence t.
IsPrefix(s, t) == Len(s) <= Len(t) /\ SubSeq(t, 1, Len(s)) = s

\* The positions of the edges the sweep just run changed, in collection
\* order.
SweptEdges ==
    SelectSeq([i \in 1..Len(Edges) |-> i],
              LAMBDA i : Edges[i] # last.pre.Edges[i])

\* The snapshots the sweep just run owes to the history kept under key.
SweepSnapshots(key) ==
    LET mine == SelectSeq(SweptEdges, LAMBDA i : HistoryKey(Edges[i]) = key)
    IN  [j \in 1..Len(mine) |-> EdgeSnapshot(Edges[mine[j]], DecayEvent)]

\* The successful UpdateEdgeWeight calls of the shock just run that updated
\* an edge with the given history key.
ShockUpdatesOf(key) ==
    {j \in DOMAIN last.out.reweighted :
        /\ last.out.reweighted[j].ok
        /\ HistoryKey(Edges[last.out.reweighted[j].edge]) = key}

\* C21: edge history is append-only and records every weight mutation: a
\* successful UpdateEdgeWeight appends one snapshot (the resulting weight,
\* timestamp, status and the event id) to the history of the edge's triple
\* and touches no other history, a failed one appends nothing; a decay sweep
\* appends one snapshot per edge it changed and nothing for an edge it
\* skipped; a shock run appends one snapshot per successful update; every
\* earlier snapshot stays where it was.
HistoryRecordsEveryMutation ==
    /\ last.op = "UpdateEdgeWeight" =>
         IF last.out.ok
         THEN /\ DOMAIN EdgeHistories =
                    DOMAIN last.pre.EdgeHistories
                       \cup {HistoryKey(Edges[last.out.edge])}
              /\ \A key \in DOMAIN EdgeHistories :
                    EdgeHistories[key] =
                        IF key = HistoryKey(Edges[last.out.edge])
                        THEN Append(HistoryOf(last.pre.EdgeHistories, key),
                                    EdgeSnapshot(Edges[last.out.edge],
                                                 EventID("news", "", 0, "")))
                        ELSE last.pre.EdgeHistories[key]
         ELSE EdgeHistories = last.pre.EdgeHistories
    /\ last.op = "ApplyTemporalDecay" =>
         /\ last.out.count = Len(SweptEdges)
         /\ DOMAIN last.pre.EdgeHistories \subseteq DOMAIN EdgeHistories
         /\ \A key \in DOMAIN EdgeHistories :
               EdgeHistories[key] =
                   HistoryOf(last.pre.EdgeHistories, key) \o SweepSnapshots(key)
    /\ last.op = "RunShock" =>
         /\ DOMAIN last.pre.EdgeHistories \subseteq DOMAIN EdgeHistories
         /\ \A key \in DOMAIN EdgeHistories :
               /\ IsPrefix(HistoryOf(last.pre.EdgeHistories, key),
                           EdgeHistories[key])
               /\ Len(EdgeHistories[key]) =
                      Len(HistoryOf(last.pre.EdgeHistories, key))
                         + Cardinality(ShockUpdatesOf(key))

\* C21 witness: a sweep run right after an update changed an edge and
\* skipped another whose history already held two snapshots.
SweepAppendedAndSkipped ==
    /\ last.op = "ApplyTemporalDecay"
    /\ last.prevOp = "UpdateEdgeWeight"
    /\ last.out.count > 0
    /\ \E i \in 1..Len(Edges) :
          /\ Edges[i] = last.pre.Edges[i]
          /\ Len(HistoryOf(EdgeHistories, HistoryKey(Edges[i]))) >= 2


\* C22: under every operation other than Clear and Replace the edge
\* collection is append-only: the edges held before the step are still
\* there, at the same positions and with the same (source, target, type).
EdgesAppendOnly ==
    last.op \notin Swaps =>
        /\ Len(last.pre.Edges) <= Len(Edges)
        /\ \A i \in 1..Len(last.pre.Edges) :
              HistoryKey(Edges[i]) = HistoryKey(last.pre.Edges[i])

\* C22 witness: AddEdge was called with the triple of an edge the collection
\* already held, on a collection of three or more edges.
ParallelEdgeAppended ==
    /\ last.op = "AddEdge"
    /\ Len(last.pre.Edges) >= 3
    /\ HasEdge(last.pre.Edges, last.arg.SourceID, last.arg.TargetID,
               last.arg.Type)
    /\ Len(Edges) = Len(last.pre.Edges) + 1


\* The triple UpdateEdgeWeight was just called with.
CalledTriple == <<last.arg.sourceID, last.arg.targetID, last.arg.edgeType>>

\* C23: parallel edges are tracked independently: a successful
\* UpdateEdgeWeight(source, target, type, ...) changes the weight, timestamp
\* and status of one edge, which has that triple, and the history of that
\* triple; every other edge, every other history, the adjacency index and
\* every entity are as they were.
UpdateTouchesOneEdge ==
    (last.op = "UpdateEdgeWeight" /\ last.out.ok) =>
        /\ HistoryKey(Edges[last.out.edge]) = CalledTriple
        /\ Len(Edges) = Len(last.pre.Edges)
        /\ \A i \in 1..Len(Edges) :
              IF i = last.out.edge
              THEN [Edges[i] EXCEPT
                      !.Weight = last.pre.Edges[i].Weight,
                      !.Timestamp = last.pre.Edges[i].Timestamp,
                      !.Status = last.pre.Edges[i].Status] = last.pre.Edges[i]
              ELSE Edges[i] = last.pre.Edges[i]
        /\ \A key \in DOMAIN EdgeHistories \ {CalledTriple} :
              /\ key \in DOMAIN last.pre.EdgeHistories
              /\ EdgeHistories[key] = last.pre.EdgeHistories[key]
        /\ Nodes = last.pre.Nodes
        /\ Adjacency = last.pre.Adjacency

\* C23 witness: an update changed the weight of an edge that comes, in its
\* source's adjacency list, after an edge to the same target with another
\* type.
LaterParallelEdgeUpdated ==
    /\ last.op = "UpdateEdgeWeight"
    /\ last.out.ok
    /\ Edges[last.out.edge].Weight # last.pre.Edges[last.out.edge].Weight
    /\ \E i \in 1..(last.out.edge - 1) :
          /\ Edges[i].SourceID = last.arg.sourceID
          /\ Edges[i].TargetID = last.arg.targetID
          /\ Edges[i].Type # last.arg.edgeType


\* The edge AddEdge was just called with, and the edge the store holds for
\* it.
GivenEdge == last.arg
StoredEdge == Edges[Len(Edges)]

\* C24: AddEdge fills in only what is unset: an unset timestamp becomes the
\* current time, an unset status "Active", an unset directionality the
\* policy value of the type, and what the caller supplied is kept; the edge
\* is appended to the collection and to the adjacency list of its source and
\* given one history snapshot, whether or not its source and target are
\* entities of the store, and no entity changes.
AddEdgeFillsOnlyUnset ==
    last.op = "AddEdge" =>
        /\ Edges = Append(last.pre.Edges, StoredEdge)
        /\ StoredEdge.Timestamp =
               IF GivenEdge.Timestamp = ZeroTime THEN last.at
               ELSE GivenEdge.Timestamp
        /\ StoredEdge.Status =
               IF GivenEdge.Status = "" THEN "Active" ELSE GivenEdge.Status
        /\ StoredEdge.Directionality =
               IF GivenEdge.Directionality = ""
               THEN GetEdgeDirectionality(GivenEdge.Type)
               ELSE GivenEdge.Directionality
        /\ [StoredEdge EXCEPT !.Timestamp = GivenEdge.Timestamp,
                              !.Status = GivenEdge.Status,
                              !.Directionality = GivenEdge.Directionality]
               = GivenEdge
        /\ DOMAIN Adjacency = DOMAIN last.pre.Adjacency \cup {GivenEdge.SourceID}
        /\ \A k \in DOMAIN Adjacency :
              Adjacency[k] =
                  IF k = GivenEdge.SourceID
                  THEN Append(GetOutgoingEdges(last.pre, k), Len(Edges))
                  ELSE last.pre.Adjacency[k]
        /\ DOMAIN EdgeHistories =
               DOMAIN last.pre.EdgeHistories \cup {HistoryKey(GivenEdge)}
        /\ \A key \in DOMAIN EdgeHistories :
              EdgeHistories[key] =
                  IF key = HistoryKey(GivenEdge)
                  THEN Append(HistoryOf(last.pre.EdgeHistories, key),
                              EdgeSnapshot(StoredEdge, NoEvent))
                  ELSE last.pre.EdgeHistories[key]
        /\ Nodes = last.pre.Nodes

\* C24 witness: AddEdge was called with timestamp, status and directionality
\* set, the directionality not the policy's for the type, for a source that
\* is no entity of the store, and the store holds the edge as given.
PresetEdgeToAbsentSourceKept ==
    /\ last.op = "AddEdge"
    /\ GivenEdge.Timestamp # ZeroTime
    /\ GivenEdge.Status \notin {"", "Active"}
    /\ GivenEdge.Directionality \notin {"", GetEdgeDirectionality(GivenEdge.Type)}
    /\ GivenEdge.SourceID \notin DOMAIN Nodes
    /\ StoredEdge = GivenEdge


(********************* auto-save under concurrent adds ********************)
\* Specification AutoSaveSpec: two goroutines add entities and edges to one
\* store (the news engine through Seeder.ProcessNation, the command loop
\* through Seeder.Seed).  AddNode and AddEdge end with triggerAutoSave,
\* which gives the write lock up while Save runs and takes it again to reset
\* the counter.  steps counts the AddNode and AddEdge calls made, saved is
\* the sequence of saves made; neither is read by the program.
Adders == {"news", "command"}

\* AddNode and AddEdge calls made in one behaviour.
MaxAdds == 4

\* The thresholds EnableAutoSave is called with.
AutoSaveThresholds == {2, 3}

AdderKeeps == UNCHANGED <<autoSaveThreshold, now, last, sim, newG, gen, retired>>

\* model.go:137-141, 160-165, 280-282: the counter after the add, and where
\* the caller goes: into Save with the lock given up, or back with the lock
\* released by the deferred Unlock.
AdderCounts(p) ==
    /\ changesSinceLastSave' = changesSinceLastSave + 1
    /\ steps' = steps + 1
    /\ mu' = Unlock(Lock(mu, p), p)
    /\ pc' = [pc EXCEPT ![p] =
                IF changesSinceLastSave + 1 >= autoSaveThreshold
                THEN "save" ELSE "idle"]
    /\ UNCHANGED saved
    /\ AdderKeeps

\* model.go:155-165  AddNode up to the Unlock in triggerAutoSave or the
\* deferred one.
AdderAddNode(p) ==
    /\ pc[p] = "idle"
    /\ steps < MaxAdds
    /\ CanLock(mu)
    /\ \E n \in NodeInputs : SetStore(AddNode(G, n))
    /\ AdderCounts(p)

\* model.go:249-281  AddEdge up to the Unlock in triggerAutoSave or the
\* deferred one.
AdderAddEdge(p) ==
    /\ pc[p] = "idle"
    /\ steps < MaxAdds
    /\ Len(Edges) < MaxEdges
    /\ CanLock(mu)
    /\ \E e \in EdgeInputs : SetStore(AddEdge(G, now, e))
    /\ AdderCounts(p)

\* model.go:143, 456  g.Save(g.autoSavePath): g.mu.RLock()
AdderSaveLock(p) ==
    /\ pc[p] = "save"
    /\ CanRLock(mu)
    /\ mu' = RLock(mu, p)
    /\ pc' = [pc EXCEPT ![p] = "marshal"]
    /\ UNCHANGED <<changesSinceLastSave, steps, saved>>
    /\ StoreSame
    /\ AdderKeeps

\* model.go:457-464  MarshalIndent, WriteFile, RUnlock
AdderSaveMarshal(p) ==
    /\ pc[p] = "marshal"
    /\ saved' = Append(saved, [by |-> p, doc |-> Save(G),
                               changes |-> changesSinceLastSave,
                               adds |-> steps])
    /\ mu' = RUnlock(mu, p)
    /\ pc' = [pc EXCEPT ![p] = "relock"]
    /\ UNCHANGED <<changesSinceLastSave, steps>>
    /\ StoreSame
    /\ AdderKeeps

\* model.go:149-150  g.mu.Lock(); g.changesSinceLastSave = 0; then the
\* caller's deferred Unlock.
AdderRelock(p) ==
    /\ pc[p] = "relock"
    /\ CanLock(mu)
    /\ changesSinceLastSave' = 0
    /\ mu' = Unlock(Lock(mu, p), p)
    /\ pc' = [pc EXCEPT ![p] = "idle"]
    /\ UNCHANGED <<steps, saved>>
    /\ StoreSame
    /\ AdderKeeps

\* main.go:54-76: an empty store, EnableAutoSave(graphFile, threshold).
AutoSaveInit ==
    /\ Nodes = EmptyGraph.Nodes
    /\ Edges = EmptyGraph.Edges
    /\ EdgeHistories = EmptyGraph.EdgeHistories
    /\ Adjacency = EmptyGraph.Adjacency
    /\ changesSinceLastSave = 0
    /\ autoSaveThreshold \in AutoSaveThresholds
    /\ now = StartTime
    /\ steps = 0
    /\ last = [op |-> "Init", arg |-> NoArg, pre |-> EmptyGraph,
               out |-> NoArg, at |-> StartTime, prevOp |-> "",
               prevArg |-> NoArg, prevAt |-> StartTime]
    /\ mu = Free
    /\ pc = [p \in Adders |-> "idle"]
    /\ sim = NoArg
    /\ newG = EmptyGraph
    /\ saved = <<>>
    /\ gen = FirstGen
    /\ retired = EmptyGraph

AutoSaveNext ==
    \E p \in Adders :
        \/ AdderAddNode(p)
        \/ AdderAddEdge(p)
        \/ AdderSaveLock(p)
        \/ AdderSaveMarshal(p)
        \/ AdderRelock(p)

AutoSaveSpec == AutoSaveInit /\ [][AutoSaveNext]_vars

\* C25: for any interleaving of AddNode and AddEdge calls a save is made
\* when the change counter reaches the threshold N and the counter is then
\* reset, so that the counter never exceeds N and there is at most one save
\* per N calls.
SaveOncePerThreshold ==
    /\ changesSinceLastSave <= autoSaveThreshold
    /\ Len(saved) * autoSaveThreshold <= steps


(************** the policy and the resilience formula alone ***************)
\* Specification PolicySpec: one call of ShouldPropagateShock, of the two
\* policy lookups, or of the effective-impact computation of RunShock, on an
\* input drawn from the sets below.  last.arg holds the input, last.out the
\* result; the store is not involved.

\* The relationship types of model.go and one the policy table does not list.
PolicyEdgeTypes ==
    {"Trade", "Capital", "Regulatory", "HasIndustry", "HasCompany",
     "Requires", "Produces", "SubstituteFor", "CompetesWith", "DependsOn",
     "Supplies", "ProcuresFrom", "Manufactures", "Consumes", "Sanctions"}

\* The tags of model.go:49-58 and the unset tag.
PolicyTags == {"", Unidirectional, Bidirectional, Reverse}

\* Health values of a target: the bounds 0.1 and 2.0 of UpdateNodeHealth,
\* values between them, and values only a loaded document can hold.
PolicyHealths == {0, 50, 100, 101, 250, 500, 800, 1000, 1001, 1500, 2000, 3000}

\* Impact factors from 0.0 to 1.0.
PolicyFactors == {0, 100, 250, 500, 750, 900, 999, 1000}

PolicyInput(fn, edge, fromSource, health, impactFactor) ==
    [fn |-> fn, edge |-> edge, fromSource |-> fromSource,
     health |-> health, impactFactor |-> impactFactor]

PolicyInputs ==
    {PolicyInput("ShouldPropagateShock", Edge("a", "b", ty, 500, StartTime, tag), fs, 0, 0) :
        ty \in PolicyEdgeTypes, tag \in PolicyTags, fs \in BOOLEAN}
    \cup {PolicyInput("Policy", Edge("a", "b", ty, 500, StartTime, ""), TRUE, 0, 0) :
        ty \in PolicyEdgeTypes}
    \cup {PolicyInput("EffectiveImpact", Edge("a", "b", "Trade", 500, StartTime, ""), TRUE, h, f) :
        h \in PolicyHealths, f \in PolicyFactors}

PolicyInit ==
    /\ Nodes = EmptyGraph.Nodes
    /\ Edges = EmptyGraph.Edges
    /\ EdgeHistories = EmptyGraph.EdgeHistories
    /\ Adjacency = EmptyGraph.Adjacency
    /\ changesSinceLastSave = 0
    /\ autoSaveThreshold = 10
    /\ now = StartTime
    /\ steps = 0
    /\ \E in \in PolicyInputs :
         last = [op |-> "Init", arg |-> in, pre |-> EmptyGraph,
                 out |-> NoArg, at |-> StartTime, prevOp |-> "",
                 prevArg |-> NoArg, prevAt |-> StartTime]
    /\ mu = Free
    /\ pc = [p \in Procs |-> "off"]
    /\ sim = NoArg
    /\ newG = EmptyGraph
    /\ saved = NoArg
    /\ gen = FirstGen
    /\ retired = EmptyGraph

PolicyReturns(fn, out) ==
    /\ last' = [last EXCEPT !.op = fn, !.out = out]
    /\ UNCHANGED <<Nodes, Edges, EdgeHistories, Adjacency>>
    /\ UNCHANGED <<changesSinceLastSave, autoSaveThreshold, now, steps>>
    /\ UNCHANGED concVars

\* seeder.go:539-561: the result, and the edge with the tag the call leaves.
CallShouldPropagateShock ==
    /\ last.op = "Init"
    /\ last.arg.fn = "ShouldPropagateShock"
    /\ PolicyReturns("ShouldPropagateShock",
           [result |-> ShouldPropagateShock(last.arg.edge, last.arg.fromSource),
            edge |-> [last.arg.edge EXCEPT
                        !.Directionality = ResolvedDirectionality(last.arg.edge)]])

\* seeder.go:495-535, 565-604: the two lookups for one type.
CallPolicy ==
    /\ last.op = "Init"
    /\ last.arg.fn = "Policy"
    /\ PolicyReturns("Policy",
           [directionality |-> GetEdgeDirectionality(last.arg.edge.Type),
            factor |-> GetShockPropagationFactor(last.arg.edge.Type)])

\* part_005:35-50: the effective impact for a target of the given health.
CallEffectiveImpact ==
    /\ last.op = "Init"
    /\ last.arg.fn = "EffectiveImpact"
    /\ PolicyReturns("EffectiveImpact",
           [effectiveImpact |->
               EffectiveImpact(last.arg.health, last.arg.impactFactor)])

PolicyNext ==
    \/ CallShouldPropagateShock
    \/ CallPolicy
    \/ CallEffectiveImpact

PolicySpec == PolicyInit /\ [][PolicyNext]_vars

\* C26: ShouldPropagateShock(edge, fromSource) is true exactly when the
\* edge's directionality is Bidirectional, or Unidirectional while travelling
\* from source to target, or Reverse while travelling from target to source;
\* an unset tag is read from the policy table first.
ShouldPropagateExactly ==
    last.op = "ShouldPropagateShock" =>
        LET d == last.out.edge.Directionality
            fs == last.arg.fromSource
        IN  /\ d = IF last.arg.edge.Directionality = ""
                   THEN GetEdgeDirectionality(last.arg.edge.Type)
                   ELSE last.arg.edge.Directionality
            /\ last.out.result <=>
                 \/ d = Bidirectional
                 \/ d = Unidirectional /\ fs
                 \/ d = Reverse /\ ~fs

\* C26 witness: a Supplies edge tagged Reverse was asked about travelling
\* from its source and was refused.
ReverseTagRefusedFromSource ==
    /\ last.op = "ShouldPropagateShock"
    /\ last.arg.edge.Type = "Supplies"
    /\ last.arg.edge.Directionality = Reverse
    /\ last.arg.fromSource
    /\ ~last.out.result


\* The groups of relationship types the policy table is described by.
SupplyTypes == {"Supplies", "Manufactures", "Produces"}
ProcurementTypes == {"ProcuresFrom", "Consumes", "Requires", "DependsOn"}
ExchangeTypes == {"Trade", "Capital", "CompetesWith", "SubstituteFor", "Regulatory"}
MembershipTypes == {"HasIndustry", "HasCompany"}
ListedTypes == SupplyTypes \cup ProcurementTypes \cup ExchangeTypes \cup MembershipTypes

\* The policy call answered for a type of the group with the given mode and
\* an attenuation within lo..hi.
PolicyAnswers(group, mode, lo, hi) ==
    last.arg.edge.Type \in group =>
        /\ last.out.directionality = mode
        /\ last.out.factor >= lo
        /\ last.out.factor <= hi

\* C27: the policy maps supply, manufacture and produce types to
\* Unidirectional with attenuation 0.8-0.9, procurement, consumption,
\* requirement and dependency types to Reverse with 0.7-0.8, trade, capital,
\* competition, substitution and regulatory types to Bidirectional with
\* 0.3-0.6, the membership types HasIndustry and HasCompany to Unidirectional
\* with 0.5-0.6, an unlisted type to Bidirectional with 0.5; every
\* attenuation lies in (0, 1].
PolicyTableMembershipDownstream ==
    last.op = "Policy" =>
        /\ PolicyAnswers(SupplyTypes, Unidirectional, 800, 900)
        /\ PolicyAnswers(ProcurementTypes, Reverse, 700, 800)
        /\ PolicyAnswers(ExchangeTypes, Bidirectional, 300, 600)
        /\ PolicyAnswers(MembershipTypes, Unidirectional, 500, 600)
        /\ PolicyAnswers(PolicyEdgeTypes \ ListedTypes, Bidirectional, 500, 500)
        /\ last.out.factor > 0
        /\ last.out.factor <= Scale

\* C27 as stated: the membership types HasIndustry and HasCompany are
\* Bidirectional with attenuation 0.3-0.6 like the exchange types.
PolicyTableMembershipBoth ==
    last.op = "Policy" =>
        /\ PolicyAnswers(SupplyTypes, Unidirectional, 800, 900)
        /\ PolicyAnswers(ProcurementTypes, Reverse, 700, 800)
        /\ PolicyAnswers(ExchangeTypes \cup MembershipTypes, Bidirectional, 300, 600)
        /\ PolicyAnswers(PolicyEdgeTypes \ ListedTypes, Bidirectional, 500, 500)
        /\ last.out.factor > 0
        /\ last.out.factor <= Scale

\* C27 witness: the policy was asked about HasIndustry and answered
\* Unidirectional with attenuation 0.6.
MembershipAnsweredDownstream ==
    /\ last.op = "Policy"
    /\ last.arg.edge.Type = "HasIndustry"
    /\ last.out.directionality = Unidirectional
    /\ last.out.factor = 600


\* C28: a shock with impact factor f on a target of health h before the run
\* has effective impact min(1, max(0, 1 - (1 - f) / max(h, 0.1))), h being
\* the health before the 0.2 penalty of the run; for the same f a target of
\* higher health has no lower, one of lower health no higher effective
\* impact.
EffectiveImpactFromStartHealth ==
    ShockRan =>
        LET h == last.pre.Nodes[last.arg.TargetNodeID].Health
            f == last.arg.ImpactFactor
            eI == last.out.effectiveImpact
        IN  /\ eI = Min(Scale, Max(0, Scale - MulDiv(Scale - f, Scale, Max(h, MinHealth))))
            /\ \A h2 \in PolicyHealths :
                  /\ h2 >= h => EffectiveImpact(h2, f) >= eI
                  /\ h2 <= h => EffectiveImpact(h2, f) <= eI

\* C28 witness: a shock with factor 0.5 on a target of health between 0.5 and
\* 1.0 had an effective impact strictly between 0 and 0.5, computed from the
\* health the run then lowered.
WeakTargetShockAmplified ==
    /\ ShockRan
    /\ last.arg.ImpactFactor = 500
    /\ last.pre.Nodes[last.arg.TargetNodeID].Health > 500
    /\ last.pre.Nodes[last.arg.TargetNodeID].Health < Scale
    /\ last.out.effectiveImpact > 0
    /\ last.out.effectiveImpact < 500
    /\ Nodes[last.arg.TargetNodeID].Health < last.pre.Nodes[last.arg.TargetNodeID].Health


\* The positions, in the graph before the run, of the shocked entity's
\* outgoing edges that let a shock through from their source.
ForwardEdges ==
    {i \in Range(GetOutgoingEdges(last.pre, last.arg.TargetNodeID)) :
        ShouldPropagateShock(last.pre.Edges[i], TRUE)}

\* -0.1 * (1 - effectiveImpact) * attenuation of edge i's type.
ForwardPenalty(i) ==
    -((((100 * (1000 - last.out.effectiveImpact)) \div 1000)
        * GetShockPropagationFactor(last.pre.Edges[i].Type)) \div 1000)

\* The entries of the run's record for entity id and for edge j.
PenaltiesOf(id) ==
    {k \in 1..Len(last.out.penalised) : last.out.penalised[k].node = id}
ReweightsOf(j) ==
    {k \in 1..Len(last.out.reweighted) :
        last.out.reweighted[k].ok /\ last.out.reweighted[k].edge = j}

\* The weight UpdateEdgeWeight with sentiment -(1 - effectiveImpact) and
\* relevance 1.0 gives the edge of edge i's triple in the graph before the
\* run.
ShockedWeight(i) ==
    LET e == last.pre.Edges[i]
        r == UpdateEdgeWeight(last.pre, last.at, e.SourceID, e.TargetID,
                              e.Type, -(Scale - last.out.effectiveImpact),
                              Scale, NoEvent)
    IN  r.g.Edges[r.edge].Weight

ReverseEdges ==
    {i \in 1..Len(last.pre.Edges) :
        /\ last.pre.Edges[i].TargetID = last.arg.TargetNodeID
        /\ GetNode(last.pre, last.pre.Edges[i].SourceID)
        /\ ShouldPropagateShock(last.pre.Edges[i], FALSE)}

\* -0.05 * (1 - effectiveImpact) * attenuation of edge i's type.
ReversePenalty(i) ==
    -((((50 * (1000 - last.out.effectiveImpact)) \div 1000)
        * GetShockPropagationFactor(last.pre.Edges[i].Type)) \div 1000)

\* C30: in the reverse scan of a shock on X, for every edge whose target is
\* X, whose source is in the store and that lets a shock through from its
\* target, UpdateEdgeWeight is called with sentiment -(1 - effectiveImpact)
\* and relevance 1.0 and the source's health is changed by
\* -0.05 * (1 - effectiveImpact) * attenuation(type), half the first-hop
\* penalty for the type; the scan touches no other edge into X.
ReverseScanTouchesReverseEdgesOnly ==
    (ShockRan /\ ~last.out.panicked) =>
        /\ \A i \in ReverseEdges :
              LET up == last.pre.Edges[i].SourceID
              IN  /\ \E k \in 1..Len(last.out.reweighted) :
                        /\ last.out.reweighted[k].hop = "reverse"
                        /\ last.out.reweighted[k].via = i
                        /\ last.out.reweighted[k].ok
                        /\ Cardinality(ReweightsOf(last.out.reweighted[k].edge)) = 1
                           => Edges[last.out.reweighted[k].edge].Weight = ShockedWeight(i)
                  /\ \E k \in PenaltiesOf(up) :
                        /\ last.out.penalised[k].hop = "reverse"
                        /\ last.out.penalised[k].via = i
                        /\ last.out.penalised[k].delta = ReversePenalty(i)
                  /\ (Cardinality(PenaltiesOf(up)) = 1 /\ up # last.arg.TargetNodeID)
                     => Nodes[up].Health =
                          Min(2000, Max(100, last.pre.Nodes[up].Health + ReversePenalty(i)))
                  /\ Abs(2 * ReversePenalty(i) - ForwardPenalty(i)) <= 2
        /\ \A r \in Range(last.out.reweighted) :
              r.hop = "reverse" =>
                  /\ r.via \in ReverseEdges
                  /\ r.ok => r.edge \in ReverseEdges
        /\ \A p \in Range(last.out.penalised) :
              p.hop = "reverse" => p.via \in ReverseEdges


(************************ claims about the ripple *************************)
\* The positions, in the graph before the run, of the outgoing edges of
\* entity id.
OutgoingBefore(id) == Range(GetOutgoingEdges(last.pre, id))

\* The ripple's updates through the outgoing edges of entity id.
RipplesFrom(id) ==
    {k \in 1..Len(last.out.reweighted) :
        /\ last.out.reweighted[k].hop = "second"
        /\ last.out.reweighted[k].via \in OutgoingBefore(id)}

\* The entities the forward loop impacted.
FirstImpacted ==
    {p.node : p \in {x \in Range(last.out.penalised) : x.hop = "first"}}

\* The event ids of the history snapshots of edge i after the run.
EventsOf(i) ==
    {s.EventID : s \in Range(HistoryOf(EdgeHistories, HistoryKey(Edges[i])))}

\* The event id the ripple from entity id logs.
RippleEvent(id) == EventID("shock_2nd", last.arg.TargetNodeID, 0, id)

\* C31: for every entity the forward loop impacted, with a the activation
\* recorded for it when the ripple starts: if a does not exceed 0.05 the
\* ripple re-weights none of its outgoing edges; otherwise the entity is
\* rippled with a, each of its outgoing edges is re-weighted by the ripple
\* and its history holds a snapshot under the ripple's event id, which is no
\* first-order event id of the run.
RippleFollowsRecordedActivation ==
    (ShockRan /\ ~last.out.panicked) =>
        \A id \in FirstImpacted :
            /\ SeededActivation(id) <= 50 => RipplesFrom(id) = {}
            /\ SeededActivation(id) > 50 =>
                 /\ \A r \in Range(last.out.rippled) :
                       r.node = id => r.activation = SeededActivation(id)
                 /\ \A i \in OutgoingBefore(id) :
                       /\ \E k \in RipplesFrom(id) :
                             /\ last.out.reweighted[k].via = i
                             /\ last.out.reweighted[k].ok
                       /\ RippleEvent(id) \in EventsOf(i)
                       /\ RippleEvent(id).kind \notin {"shock", "shock_reverse"}


(******************* the directional shock test's graph *******************)
\* Specification ScenarioSpec: the store cmd/test_directional_shocks.go
\* builds, then shocks on its entities.
Supplier == "chip_supplier"
Manufacturer == "phone_manufacturer"
Retailer == "electronics_retailer"
Consumer == "consumer_market"
AlternativeSupplier == "alternative_chip_supplier"
ScenarioKeys == {Supplier, Manufacturer, Retailer, Consumer, AlternativeSupplier}

\* test_directional_shocks.go:20-103: five AddNode and five AddEdge calls.
ScenarioGraph ==
    addEdges(
      addNodes(EmptyGraph,
        <<Node(Supplier, "Corporation", 1000),
          Node(Manufacturer, "Corporation", 1000),
          Node(Retailer, "Corporation", 1000),
          Node(Consumer, "Nation", 1000),
          Node(AlternativeSupplier, "Corporation", 1000)>>),
      StartTime,
      <<Edge(Supplier, Manufacturer, "Supplies", 900, ZeroTime, ""),
        Edge(Manufacturer, Retailer, "Supplies", 800, ZeroTime, ""),
        Edge(Retailer, Consumer, "Trade", 700, ZeroTime, ""),
        Edge(Manufacturer, Supplier, "DependsOn", 900, ZeroTime, ""),
        Edge(AlternativeSupplier, Manufacturer, "Supplies", 500, ZeroTime, "")>>)

\* The positions of the scenario's edges in the collection.
ManufacturerToRetailer ==
    FindEdge(ScenarioGraph, Manufacturer, Retailer, "Supplies")
RetailerToConsumer ==
    FindEdge(ScenarioGraph, Retailer, Consumer, "Trade")

ScenarioInit ==
    /\ Nodes = ScenarioGraph.Nodes
    /\ Edges = ScenarioGraph.Edges
    /\ EdgeHistories = ScenarioGraph.EdgeHistories
    /\ Adjacency = ScenarioGraph.Adjacency
    /\ changesSinceLastSave = 0
    /\ autoSaveThreshold = 10
    /\ now = StartTime
    /\ steps = 0
    /\ last = [op |-> "Init", arg |-> NoArg, pre |-> EmptyGraph,
               out |-> NoArg, at |-> StartTime, prevOp |-> "",
               prevArg |-> NoArg, prevAt |-> StartTime]
    /\ mu = Free
    /\ pc = [p \in Procs |-> "off"]
    /\ sim = NoArg
    /\ newG = EmptyGraph
    /\ saved = NoArg
    /\ gen = FirstGen
    /\ retired = EmptyGraph

\* test_directional_shocks.go:147-153: sim.RunShock on an entity of the
\* scenario.
ScenarioShock ==
    /\ CanStep
    /\ \E target \in ScenarioKeys, f \in ImpactFactors :
         ShockTaken(target, f, RunShock(G, now, target, f))
    /\ steps' = steps + 1
    /\ UNCHANGED concVars
    /\ UNCHANGED <<changesSinceLastSave, autoSaveThreshold, now>>

ScenarioNext ==
    \/ Tick
    \/ ScenarioShock

ScenarioSpec == ScenarioInit /\ [][ScenarioNext]_vars

\* The test's first shock has just run on the graph as built.
SupplierShocked ==
    /\ last.op = "RunShock"
    /\ last.prevOp = "Init"
    /\ last.arg = [TargetNodeID |-> Supplier, ImpactFactor |-> 100]

\* C32: in the test's scenario a shock on the supplier with impact factor
\* 0.1 goes beyond the first hop: the ripple weakens the edge from the
\* manufacturer to the retailer, and the consumer market is affected through
\* the trade edge from the retailer: the edge loses weight or the consumer
\* loses health.
ScenarioReachesConsumer ==
    SupplierShocked =>
        /\ \E r \in Range(last.out.reweighted) :
              r.hop = "second" /\ r.via = ManufacturerToRetailer /\ r.ok
        /\ Edges[ManufacturerToRetailer].Weight
             < last.pre.Edges[ManufacturerToRetailer].Weight
        /\ \/ Edges[RetailerToConsumer].Weight
                < last.pre.Edges[RetailerToConsumer].Weight
           \/ Nodes[Consumer].Health < last.pre.Nodes[Consumer].Health


\* C33: the activation recorded for a first-order neighbour equals
\* (1 - effectiveImpact) * edgeWeight * attenuation(type), edgeWeight being
\* the weight the edge had before the run's own update of it; stated for a
\* neighbour impacted once in the run through an edge updated once.
ActivationFromWeightOnArrival ==
    (ShockRan /\ ~last.out.panicked) =>
        \A k \in 1..Len(last.out.penalised) :
            last.out.penalised[k].hop = "first" =>
                LET i == last.out.penalised[k].via
                    id == last.out.penalised[k].node
                IN  (/\ Cardinality(PenaltiesOf(id)) = 1
                     /\ Cardinality(ReweightsOf(i)) = 1
                     /\ id \in DOMAIN last.out.seeded)
                    => last.out.seeded[id] =
                         Mul(Mul(Scale - last.out.effectiveImpact,
                                 last.pre.Edges[i].Weight),
                             GetShockPropagationFactor(last.pre.Edges[i].Type))


(*********************** claims about the decay sweep **********************)
\* e^x for x <= 0 in fixed point, by the degree-5 series.
SeriesExp(x) ==
    Scale + x + TDiv(Mul(x, x), 2) + TDiv(Mul(Mul(x, x), x), 6)
          + TDiv(Mul(Mul(Mul(x, x), x), x), 24)
          + TDiv(Mul(Mul(Mul(Mul(x, x), x), x), x), 120)

Square(y) == Mul(y, y)

\* e^x for x <= 0 in fixed point, computed by halving the argument down to
\* [-0.5, 0] and squaring back; within 0.004 of e^x over the range
\* of the exponents.
RECURSIVE RefExp(_)
RefExp(x) == IF x < -500 THEN Square(RefExp(TDiv(x, 2))) ELSE SeriesExp(x)

\* max(0.01, w * e^(-lambda * days)) for edge e at time t.
RefCandidate(e, t, lambda) ==
    Max(DecayFloor,
        Mul(e.Weight, RefExp(Exponent(lambda, Since(t, e.Timestamp)))))

\* The number of edges the sweep just run committed with history key key.
SweptUnder(key) == Len(SweepSnapshots(key))

\* C34: a decay sweep treats each edge on its own: an edge updated less
\* than one hour ago is left untouched; otherwise the candidate weight is
\* max(0.01, w * e^(-lambda * days)) and it is committed only when it is
\* lower than w by more than 0.001, and then the weight, the timestamp and
\* the status band are updated and one history snapshot with the decay
\* event id is appended; the returned count is the number of edges
\* committed.
SweepTreatsEdgesIndependently ==
    last.op = "ApplyTemporalDecay"
    => /\ Len(Edges) = Len(last.pre.Edges)
       /\ \A i \in 1..Len(Edges) :
            IF Since(last.at, last.pre.Edges[i].Timestamp) < 2
            THEN Edges[i] = last.pre.Edges[i]
            ELSE IF Edges[i] = last.pre.Edges[i]
            THEN last.pre.Edges[i].Weight
                   - RefCandidate(last.pre.Edges[i], last.at,
                                  last.arg.lambda)
                 <= 1 + 4
            ELSE /\ Abs(Edges[i].Weight
                          - RefCandidate(last.pre.Edges[i], last.at,
                                         last.arg.lambda))
                      <= 4
                 /\ Edges[i].Weight >= 10
                 /\ last.pre.Edges[i].Weight - Edges[i].Weight > 1
                 /\ Edges[i].Timestamp = last.at
                 /\ Edges[i].Status = BandOf(Edges[i].Weight)
                 /\ Edges[i] = [last.pre.Edges[i] EXCEPT
                                   !.Weight = Edges[i].Weight,
                                   !.Timestamp = last.at,
                                   !.Status = Edges[i].Status]
       /\ \A key \in DOMAIN EdgeHistories \cup DOMAIN last.pre.EdgeHistories :
            HistoryOf(EdgeHistories, key) =
                HistoryOf(last.pre.EdgeHistories, key) \o SweepSnapshots(key)
       /\ last.out.count = Len(SweptEdges)

\* C34 witness: one sweep has committed an edge, has skipped an edge
\* updated within the hour and has left alone an older edge whose candidate
\* was not low enough.
SweepCommittedSkippedAndSpared ==
    /\ last.op = "ApplyTemporalDecay"
    /\ last.out.count > 0
    /\ \E i \in 1..Len(Edges) :
          /\ Since(last.at, last.pre.Edges[i].Timestamp) < 2
          /\ last.pre.Edges[i].Weight > 10
    /\ \E i \in 1..Len(Edges) :
          /\ Since(last.at, last.pre.Edges[i].Timestamp) >= 2
          /\ Edges[i] = last.pre.Edges[i]


(************************ claims about the winners *************************)
\* C35: the shocked entity is never flagged as its own winner: a shock on A
\* never applies the +0.15 winner boost to A itself, also when A is a
\* nation or raw material with a Produces edge to a commodity.
TargetNeverItsOwnWinner ==
    (last.op = "RunShock" /\ last.out.found /\ ~last.out.panicked)
    => /\ \A j \in DOMAIN last.out.winners :
             last.out.winners[j] # last.arg.TargetNodeID
       /\ \A j \in DOMAIN last.out.penalised :
             last.out.penalised[j].hop = "winner"
             => last.out.penalised[j].node # last.arg.TargetNodeID


\* The entities named by a sequence of run events.
NodesOf(events) == [j \in DOMAIN events |-> events[j].node]

\* Whether no element occurs twice in sequence s.
Distinct(s) == \A i, j \in DOMAIN s : s[i] = s[j] => i = j

\* C36: within one shock run each entity appears at most once in the
\* impacted list and at most once in the winners list: no entity receives
\* the +0.15 boost more than once and no entity's outgoing edges are
\* rippled more than once, also when the entity is linked to the target by
\* several edges.
EntitiesListedOnce ==
    (last.op = "RunShock" /\ last.out.found /\ ~last.out.panicked)
    => /\ Distinct(last.out.impactedNodeIDs)
       /\ Distinct(last.out.winners)
       /\ Distinct(NodesOf(SelectSeq(last.out.rippled,
                     LAMBDA r : r.activation >= RippleThreshold)))
       /\ Distinct(NodesOf(SelectSeq(last.out.penalised,
                     LAMBDA p : p.hop = "winner")))


(***************** adds that save, among other goroutines ****************)
\* The goroutines running beside the two callers of AddNode and AddEdge: a
\* reader and the decay worker.
Others == {"reader", "worker"}

\* model.go:413  GetNode: g.mu.RLock()
ReaderRLock ==
    /\ pc["reader"] = "lookup"
    /\ CanRLock(mu)
    /\ mu' = RLock(mu, "reader")
    /\ Goes("reader", "read")
    /\ UNCHANGED <<newG, saved, sim, gen>>
    /\ StoreSame
    /\ UNCHANGED seqVars

\* model.go:414-416  the lookup and the deferred RUnlock; the reader then
\* calls again.
ReaderRUnlock ==
    /\ pc["reader"] = "read"
    /\ mu' = RUnlock(mu, "reader")
    /\ Goes("reader", "lookup")
    /\ UNCHANGED <<newG, saved, sim, gen>>
    /\ StoreSame
    /\ UNCHANGED seqVars

\* model.go:547  ApplyTemporalDecay: g.mu.Lock()
SweepLock ==
    /\ pc["worker"] = "sweep"
    /\ CanLock(mu)
    /\ mu' = Lock(mu, "worker")
    /\ Goes("worker", "sweeping")
    /\ UNCHANGED <<newG, saved, sim, gen>>
    /\ StoreSame
    /\ UNCHANGED seqVars

\* model.go:548-597  the sweep and the deferred Unlock; the worker then
\* waits for the next tick.
SweepUnlock ==
    /\ pc["worker"] = "sweeping"
    /\ SetStore(ApplyTemporalDecay(G, now, WorkerLambda).g)
    /\ mu' = Unlock(mu, "worker")
    /\ Goes("worker", "sweep")
    /\ UNCHANGED <<newG, saved, sim, gen>>
    /\ UNCHANGED seqVars

\* The thresholds EnableAutoSave is called with beside the other goroutines.
LockThresholds == {1, 2}

\* main.go:54-166: an empty store with auto-save enabled, the goroutines
\* started.
LockInit ==
    /\ Nodes = EmptyGraph.Nodes
    /\ Edges = EmptyGraph.Edges
    /\ EdgeHistories = EmptyGraph.EdgeHistories
    /\ Adjacency = EmptyGraph.Adjacency
    /\ changesSinceLastSave = 0
    /\ autoSaveThreshold \in LockThresholds
    /\ now = StartTime
    /\ steps = 0
    /\ last = [op |-> "Init", arg |-> NoArg, pre |-> EmptyGraph,
               out |-> NoArg, at |-> StartTime, prevOp |-> "",
               prevArg |-> NoArg, prevAt |-> StartTime]
    /\ mu = Free
    /\ pc = [p \in Adders \cup Others |->
               CASE p = "reader" -> "lookup"
                 [] p = "worker" -> "sweep"
                 [] OTHER -> "idle"]
    /\ sim = NoArg
    /\ newG = EmptyGraph
    /\ saved = <<>>
    /\ gen = FirstGen
    /\ retired = EmptyGraph

\* AddNode and AddEdge calls made in one behaviour beside the other
\* goroutines.
LockAdds == 2

\* A step of a caller of AddNode or AddEdge.
AdderStep == AutoSaveNext /\ steps' <= LockAdds

LockNext ==
    \/ AdderStep
    \/ ReaderRLock
    \/ ReaderRUnlock
    \/ SweepLock
    \/ SweepUnlock

LockSpec == LockInit /\ [][LockNext]_vars

\* The goroutines holding the store lock, exclusive or shared.
Holders == ({mu.writer} \ {"none"}) \cup mu.readers

\* Goroutine q is at a step that does not wait for the lock.
RunsOn(q) ==
    \/ q = "worker" /\ pc[q] = "sweeping"
    \/ q = "reader" /\ pc[q] = "read"
    \/ q \in Adders /\ pc[q] = "marshal"

\* The caller p of AddNode or AddEdge is between two calls or can take its
\* next step at once.
AdderRuns(p) ==
    /\ pc[p] = "save" => CanRLock(mu)
    /\ pc[p] = "relock" => CanLock(mu)

\* The lock as a call that saves leaves it: not held by the caller outside
\* Save, held shared and by no writer inside Save; and whenever a caller
\* waits for the lock, a goroutine holding it is running.
LockBalanced ==
    /\ mu.writer # "none" => mu.readers = {}
    /\ \A p \in Adders :
          /\ mu.writer # p
          /\ p \in mu.readers <=> pc[p] = "marshal"
          /\ AdderRuns(p) \/ \E q \in Holders \ {p} : RunsOn(q)
    /\ \A q \in Holders : RunsOn(q)

\* The step takes caller p from its add to the save, lock released, with
\* what it inserted in place: an entity in the collection, or an edge at the
\* end of the collection, normalised, indexed under its source and with its
\* snapshot at the end of its history.
InsertedBeforeRelease(p) ==
    (pc[p] = "idle" /\ pc'[p] = "save")
    => /\ p \notin Holders'
       /\ changesSinceLastSave' >= autoSaveThreshold
       /\ \/ /\ Edges' = Edges
             /\ Adjacency' = Adjacency
             /\ EdgeHistories' = EdgeHistories
             /\ \E id \in DOMAIN Nodes' :
                   \A other \in DOMAIN Nodes \ {id} :
                       other \in DOMAIN Nodes' /\ Nodes'[other] = Nodes[other]
          \/ /\ Nodes' = Nodes
             /\ Len(Edges') = Len(Edges) + 1
             /\ SubSeq(Edges', 1, Len(Edges)) = Edges
             /\ Edges'[Len(Edges')].Timestamp # ZeroTime
             /\ Edges'[Len(Edges')].Status # ""
             /\ Edges'[Len(Edges')].Directionality # ""
             /\ Adjacency' = AppendAdjacency(Adjacency,
                                             Edges'[Len(Edges')].SourceID,
                                             Len(Edges'))
             /\ EdgeHistories' =
                    recordEdgeHistory(EdgeHistories, Edges'[Len(Edges')],
                                      NoEvent)

\* C37: an AddNode or AddEdge call that reaches the auto-save threshold
\* never deadlocks and keeps the lock balanced: it releases the exclusive
\* lock before Save takes the shared lock, takes the exclusive lock again
\* before returning and returns with the lock released, in every
\* interleaving with a second caller, a reader and the decay worker; what it
\* inserted is in the collection, the adjacency index and the history when
\* the lock is released for the save.
AddThatSavesKeepsLockBalanced ==
    /\ []LockBalanced
    /\ [][\A p \in Adders : InsertedBeforeRelease(p)]_vars

\* C37 witness: a caller has written its save and waits to take the
\* exclusive lock again while the other caller and the reader hold the
\* shared lock.
AdderWaitsToRelock ==
    \E p \in Adders :
        /\ pc[p] = "relock"
        /\ Len(saved) > 0
        /\ "reader" \in mu.readers
        /\ \E q \in Adders \ {p} : q \in mu.readers


(********************** claims about the store, III ***********************)
\* The latest snapshot kept for edge e, if it has a history.
LatestSnapshot(e) == EdgeHistories[HistoryKey(e)][Len(EdgeHistories[HistoryKey(e)])]

\* C38: in every reachable store state every edge in the collection is
\* normalised and has a matching history: its timestamp is set, its status
\* and directionality are non-empty, and a history exists under its
\* (source, target, type) key whose latest snapshot carries the edge's
\* current weight and status, also for the edges supply-chain discovery
\* creates during load and when two edges share a triple.
EveryEdgeNormalisedWithHistory ==
    \A i \in 1..Len(Edges) :
        /\ Edges[i].Timestamp # ZeroTime
        /\ Edges[i].Status # ""
        /\ Edges[i].Directionality # ""
        /\ HistoryKey(Edges[i]) \in DOMAIN EdgeHistories
        /\ Len(EdgeHistories[HistoryKey(Edges[i])]) > 0
        /\ LatestSnapshot(Edges[i]).Weight = Edges[i].Weight
        /\ LatestSnapshot(Edges[i]).Status = Edges[i].Status


(******************* claims about the decay factor ************************)
\* The decay factor UpdateEdgeWeight computed for the edge it just updated.
UpdateDecayFactor ==
    expApprox(Exponent(UpdateLambda,
                       Since(last.at,
                             last.pre.Edges[last.out.edge].Timestamp)))

\* sentimentScore * relevanceScore of the update just made.
SentimentImpact == Mul(last.arg.sentimentScore, last.arg.relevanceScore)

\* C39: the decay factor the exponential approximation computes lies in
\* (0, 1] for every non-negative elapsed time, the edges months or years
\* old and the edges with an unset timestamp included (a factor under the
\* resolution of the scale reads 0), so the decayed weight is never negative
\* and never above the previous weight, and UpdateEdgeWeight with a
\* non-negative sentiment * relevance p never yields a weight below
\* min(1, p).
DecayFactorWithinUnit ==
    (last.op = "UpdateEdgeWeight" /\ last.out.ok)
    => /\ UpdateDecayFactor >= 0
       /\ UpdateDecayFactor <= Scale
       /\ SentimentImpact >= 0
          => Edges[last.out.edge].Weight >= Min(Scale, SentimentImpact)

=============================================================================
